---- MODULE Spec2Model ----
(***************************************************************************)
(* A model of the pitch-deck analysis backend: the response parsers and    *)
(* their fallback ladders, the stage executors, the founder enrichment     *)
(* loop with its scan polling, and the upload pipeline of                   *)
(* app/routers/analysis_router.py.                                          *)
(*                                                                          *)
(* Response texts are sequences of lexical tokens.  Each token stands for  *)
(* a fixed piece of text (see StrToks, KeyName, ProseToks) and the text of *)
(* a sequence is its tokens joined by single blanks.  The regular          *)
(* expressions and the depth counters of the source read characters,       *)
(* json.loads reads tokens: a string literal that holds a brace is one     *)
(* token for json.loads and a brace for the scanners, which is what makes  *)
(* the rungs of the ladders differ.                                         *)
(***************************************************************************)
EXTENDS Integers, Sequences, FiniteSets, TLC

VARIABLES
    text,       \* the response text of the model call (a token sequence)
    out,        \* what the function applied to it returned
    arg,        \* the argument of a classification function
    res,        \* the bucket it returned
    file,       \* the uploaded file: its name and what its bytes hold
    pc,         \* where analyze_project_upload stands
    log,        \* the stage functions called so far, in call order
    results,    \* what each called stage function returned
    report,     \* the response of analyze_project_upload
    founders_data,  \* the candidates extract_and_search_founders loops over
    fpc,            \* where the loop stands: the index of the founder and the step
    locals,         \* the locals of _search_founder_info_comprehensive
    elapsed,        \* time.time() - start_time of wait_for_scan_completion
    founders_info,  \* the records appended so far
    calls,          \* the calls made and the exits taken, per founder index
    deck_names,     \* the names the patterns of _extract_names_regex find in the deck
    response,       \* the answer of the model call of _extract_founders_with_bios
    extracted,      \* what _extract_founders_with_bios returned
    deck_urls,      \* the repository URLs the patterns of _extract_github_urls find
    repo_founders,  \* the founders handed to analyze_github_repos
    repos_analysis, \* what analyze_github_repos returned
    hashseed,       \* the string hash seed of the running server process
    reports,        \* the reports of the uploads of one document, in order
    pipeline,       \* the locals of analyze_project_upload: what each stage returned
    wait,           \* the locals of wait_for_scan_completion and what it returned
    loop,           \* the event loop of one worker: its thread and its requests
    market,         \* the project info given to analyze_competitors and its result
    project         \* a request to POST /analysis/project and its response

parserVars == <<text, out>>
bucketVars == <<arg, res>>
uploadVars == <<file, pc, log, results, report>>
founderVars == <<founders_data, fpc, locals, elapsed, founders_info, calls>>
extractVars == <<deck_names, response, extracted>>
repoVars == <<deck_urls, repo_founders, repos_analysis>>
repeatVars == <<hashseed, reports>>
cascadeVars == <<pipeline>>
waitVars == <<wait>>
loopVars == <<loop>>
marketVars == <<market>>
projectVars == <<project>>
lastVars == <<loopVars, marketVars, projectVars>>
laterVars == <<repoVars, repeatVars, cascadeVars, waitVars, lastVars>>
vars == <<text, out, arg, res, file, pc, log, results, report,
          founders_data, fpc, locals, elapsed, founders_info, calls,
          deck_names, response, extracted,
          deck_urls, repo_founders, repos_analysis, hashseed, reports,
          pipeline, wait, loop, market, project>>

(***************************************************************************)
(* Bounds of the model.                                                     *)
(***************************************************************************)
MaxLen == 4

\* ------------------------------------------------------------------------
\* Tokens and characters
\* ------------------------------------------------------------------------

\* String literals: "s" is "high", "st" is "team", "so" is "{" and "sc" is
\* "}" (a brace inside a JSON string).  "n" is the number 5.
StrToks == {"s", "st", "so", "sc"}

\* The text json.loads returns for a string literal (its quotes removed).
StrText(tok) ==
    CASE tok = "s" -> "high"
      [] tok = "st" -> "team"
      [] tok = "so" -> "{"
      [] OTHER -> "}"

\* Object keys (the token is the quoted key and its colon).
KeyToks == {"K", "Q", "S", "P", "C", "M", "G"}

KeyName(tok) ==
    CASE tok = "K" -> "recommendations"
      [] tok = "Q" -> "question"
      [] tok = "P" -> "project_name"
      [] tok = "C" -> "compliance_score"
      [] tok = "M" -> "market_saturation"
      [] tok = "G" -> "category"
      [] OTHER -> "score"

\* Prose: "w" is the word threat, "q" is the line  What is your moat?
\* (more than 10 characters, with a question mark), "?" a lone question
\* mark, "i" is the numbered line  1. Describe the founding team,  "r" is
\* the word risk and "NL" is a line break.  "," is the comma of JSON.
ProseToks == {"w", "q", "?", "i", "r", "NL"}

\* The brace or bracket a scanner sees in a token, "." for none.
TokChar(tok) ==
    CASE tok \in {"{", "so"} -> "{"
      [] tok \in {"}", "sc"} -> "}"
      [] tok = "[" -> "["
      [] tok = "]" -> "]"
      [] OTHER -> "."

\* Lower-cased words the keyword scans of the manual extractors find in a
\* token: "s" is the literal "high", "w" is the prose word threat.
Words(tok) ==
    CASE tok \in {"s", "high"} -> {"high"}
      [] tok = "w" -> {"threat"}
      [] tok = "r" -> {"risk"}
      [] tok \in {"i", "it", "st", "team"} -> {"team"}
      [] OTHER -> {}

SeqsUpTo(S, n) == UNION {[1..k -> S] : k \in 0..n}

Min(a, b) == IF a < b THEN a ELSE b

\* ------------------------------------------------------------------------
\* JSON values and json.loads
\* ------------------------------------------------------------------------

\* A value is a record: t is its type, s the text of a string (a sequence
\* of tokens or of literal pieces), n the number, items the elements of a
\* list or the values of an object, keys the keys of an object, in the
\* order they were written.
JStr(s) == [t |-> "str", s |-> s, n |-> 0, items |-> <<>>, keys |-> <<>>]
JNum(k) == [t |-> "num", s |-> <<>>, n |-> k, items |-> <<>>, keys |-> <<>>]
JNone == [t |-> "none", s |-> <<>>, n |-> 0, items |-> <<>>, keys |-> <<>>]
JList(xs) == [t |-> "list", s |-> <<>>, n |-> 0, items |-> xs, keys |-> <<>>]
JDict(ks, vs) == [t |-> "obj", s |-> <<>>, n |-> 0, items |-> vs, keys |-> ks]

\* dict.get(key, default).  A dict holds a key once (ParseMembers lets a
\* repeated key overwrite the earlier value).
HasKey(d, key) == \E i \in 1..Len(d.keys) : d.keys[i] = key

Get(d, key, default) ==
    IF HasKey(d, key)
    THEN LET last == CHOOSE i \in 1..Len(d.keys) :
                        /\ d.keys[i] = key
                        /\ \A j \in (i + 1)..Len(d.keys) : d.keys[j] # key
         IN d.items[last]
    ELSE default

\* Python truthiness of a value.
Truthy(v) ==
    CASE v.t = "str" -> v.s # <<>>
      [] v.t = "num" -> v.n # 0
      [] v.t = "none" -> FALSE
      [] v.t = "list" -> v.items # <<>>
      [] OTHER -> v.keys # <<>>

ParseFail == [ok |-> FALSE, val |-> JNone, next |-> 0]

RECURSIVE ParseValue(_, _), ParseItems(_, _, _), ParseMembers(_, _, _, _)

ParseValue(t, i) ==
    IF i > Len(t) THEN ParseFail
    ELSE CASE t[i] \in StrToks -> [ok |-> TRUE, val |-> JStr(<<StrText(t[i])>>), next |-> i + 1]
           [] t[i] = "n" -> [ok |-> TRUE, val |-> JNum(5), next |-> i + 1]
           [] t[i] = "[" -> ParseItems(t, i + 1, <<>>)
           [] t[i] = "{" -> ParseMembers(t, i + 1, <<>>, <<>>)
           [] OTHER -> ParseFail

\* i is where an element is expected: "]" closes an empty list only, and a
\* comma must be followed by another element.
ParseItems(t, i, acc) ==
    IF i > Len(t) THEN ParseFail
    ELSE IF t[i] = "]"
    THEN IF acc = <<>>
         THEN [ok |-> TRUE, val |-> JList(acc), next |-> i + 1]
         ELSE ParseFail
    ELSE LET r == ParseValue(t, i)
         IN IF ~r.ok \/ r.next > Len(t) THEN ParseFail
            ELSE IF t[r.next] = "]"
            THEN [ok |-> TRUE, val |-> JList(Append(acc, r.val)), next |-> r.next + 1]
            ELSE IF t[r.next] = ","
            THEN ParseItems(t, r.next + 1, Append(acc, r.val))
            ELSE ParseFail

\* A repeated key keeps its first position and takes the last value, as a
\* Python dict does.
ParseMembers(t, i, ks, vs) ==
    IF i > Len(t) THEN ParseFail
    ELSE IF t[i] = "}"
    THEN IF ks = <<>>
         THEN [ok |-> TRUE, val |-> JDict(ks, vs), next |-> i + 1]
         ELSE ParseFail
    ELSE IF t[i] \in KeyToks
    THEN LET r == ParseValue(t, i + 1)
             key == KeyName(t[i])
             at == CHOOSE k \in 1..Len(ks) : ks[k] = key
             dup == \E k \in 1..Len(ks) : ks[k] = key
             ks2 == IF dup THEN ks ELSE Append(ks, key)
             vs2 == IF dup THEN [vs EXCEPT ![at] = r.val] ELSE Append(vs, r.val)
         IN IF ~r.ok \/ r.next > Len(t) THEN ParseFail
            ELSE IF t[r.next] = "}"
            THEN [ok |-> TRUE, val |-> JDict(ks2, vs2), next |-> r.next + 1]
            ELSE IF t[r.next] = ","
            THEN ParseMembers(t, r.next + 1, ks2, vs2)
            ELSE ParseFail
    ELSE ParseFail

\* json.loads: the whole text must be one value, line breaks between the
\* tokens are white space; ok = FALSE is the JSONDecodeError.
loads(t) ==
    LET u == SelectSeq(t, LAMBDA tok : tok # "NL")
        r == ParseValue(u, 1)
    IN IF r.ok /\ r.next = Len(u) + 1
       THEN [ok |-> TRUE, val |-> r.val]
       ELSE [ok |-> FALSE, val |-> JNone]

\* text[i..j] as the scanners cut it: a cut that starts or ends at the
\* brace inside a string literal leaves a piece of that literal behind.
Slice(t, i, j) ==
    [k \in 1..(j - i + 1) |->
        IF k = 1 /\ t[i] = "so" THEN "{-"
        ELSE IF k = j - i + 1 /\ t[j] = "sc" THEN "-}"
        ELSE t[i + k - 1]]

\* ------------------------------------------------------------------------
\* The scanners of the ladders
\* ------------------------------------------------------------------------

\* The end of a match of  \{[^{}]*(?:\{[^{}]*\}[^{}]*)*\}  whose opening
\* brace is just before j, or 0: at most one level of inner braces.
RECURSIVE ObjRegexEnd(_, _, _)
ObjRegexEnd(t, j, inner) ==
    IF j > Len(t) THEN 0
    ELSE IF TokChar(t[j]) = "{"
         THEN IF inner THEN 0 ELSE ObjRegexEnd(t, j + 1, TRUE)
    ELSE IF TokChar(t[j]) = "}"
         THEN IF inner THEN ObjRegexEnd(t, j + 1, FALSE) ELSE j
    ELSE ObjRegexEnd(t, j + 1, inner)

\* re.search of that pattern: the leftmost start that matches; <<0, 0>>
\* when there is none.
ObjRegexSearch(t) ==
    LET starts == {i \in 1..Len(t) :
                      TokChar(t[i]) = "{" /\ ObjRegexEnd(t, i + 1, FALSE) # 0}
    IN IF starts = {} THEN <<0, 0>>
       ELSE LET i == CHOOSE x \in starts : \A y \in starts : x <= y
            IN <<i, ObjRegexEnd(t, i + 1, FALSE)>>

\* The depth count of strategy 2: from position j with the given depth, the
\* index of the closing delimiter that brings the count of open/close back
\* to 0, or 0 when the text ends first.
RECURSIVE DepthEnd(_, _, _, _, _)
DepthEnd(t, j, depth, open, close) ==
    IF j > Len(t) THEN 0
    ELSE IF TokChar(t[j]) = open THEN DepthEnd(t, j + 1, depth + 1, open, close)
    ELSE IF TokChar(t[j]) = close
         THEN IF depth - 1 = 0 THEN j
              ELSE DepthEnd(t, j + 1, depth - 1, open, close)
    ELSE DepthEnd(t, j + 1, depth, open, close)

\* text.find(open): the first index of the delimiter, 0 for -1.
Find(t, open) ==
    IF \E i \in 1..Len(t) : TokChar(t[i]) = open
    THEN CHOOSE i \in 1..Len(t) :
            /\ TokChar(t[i]) = open
            /\ \A j \in 1..(i - 1) : TokChar(t[j]) # open
    ELSE 0

\* Whether a lower-cased word occurs in the text.
Contains(t, word) == \E i \in 1..Len(t) : word \in Words(t[i])

\* A function's outcome: the value it returns, or that it raised.
Ret(v) == [raised |-> FALSE, val |-> v]
Raise == [raised |-> TRUE, val |-> JNone]

\* ------------------------------------------------------------------------
\* CompetitorAgent
\* ------------------------------------------------------------------------

CompetitiveKeys ==
    <<"market_saturation", "competitive_advantage", "threat_level",
      "key_differentiators", "market_gaps", "recommendations">>

CompetitiveListKeys == {"key_differentiators", "market_gaps", "recommendations"}

\* A variant without the coercion of a non-list to the empty list.
ListOrEmpty_AsReturned(analysis, key) == Get(analysis, key, JList(<<>>))

\* analysis.get(key, []) if isinstance(analysis.get(key), list) else []
ListOrEmpty(analysis, key) ==
    IF Get(analysis, key, JNone).t = "list"
    THEN Get(analysis, key, JList(<<>>))
    ELSE JList(<<>>)

\* Raises (AttributeError) when the parsed value is no dict.
_validate_competitive_analysis(analysis) ==
    IF analysis.t # "obj" THEN Raise
    ELSE Ret(JDict(CompetitiveKeys,
                   <<Get(analysis, "market_saturation", JStr(<<"medium">>)),
                     Get(analysis, "competitive_advantage", JStr(<<"Analysis incomplete">>)),
                     Get(analysis, "threat_level", JStr(<<"medium">>)),
                     ListOrEmpty(analysis, "key_differentiators"),
                     ListOrEmpty(analysis, "market_gaps"),
                     ListOrEmpty(analysis, "recommendations")>>))

\* No line of a modelled text holds the words advantage or unique, so the
\* competitive_advantage of the manual extraction keeps its initial value.
_extract_competitive_analysis_manually(t) ==
    JDict(CompetitiveKeys,
          <<IF Contains(t, "high") /\ Contains(t, "saturation") THEN JStr(<<"high">>)
            ELSE IF Contains(t, "low") /\ Contains(t, "saturation") THEN JStr(<<"low">>)
            ELSE JStr(<<"medium">>),
            JStr(<<"Manual extraction required">>),
            IF Contains(t, "high") /\ Contains(t, "threat") THEN JStr(<<"high">>)
            ELSE IF Contains(t, "low") /\ Contains(t, "threat") THEN JStr(<<"low">>)
            ELSE JStr(<<"medium">>),
            JList(<<>>), JList(<<>>), JList(<<>>)>>)

CompetitiveFallback ==
    JDict(CompetitiveKeys,
          <<JStr(<<"medium">>),
            JStr(<<"Analysis incomplete - manual review recommended">>),
            JStr(<<"medium">>),
            JList(<<JStr(<<"Requires manual analysis">>)>>),
            JList(<<JStr(<<"Requires manual analysis">>)>>),
            JList(<<JStr(<<"Conduct manual competitive analysis">>)>>)>>)

\* The json.loads of a strategy; ok = FALSE is a strategy that found no
\* block or whose json.loads raised (both fall to the next strategy).
NoBlock == [ok |-> FALSE, val |-> JNone]

\* Strategy 1 of the object parsers: the regex block.
ObjStrategy1(t) ==
    LET m == ObjRegexSearch(t)
    IN IF m[1] # 0 THEN loads(Slice(t, m[1], m[2])) ELSE NoBlock

\* Strategy 2: from the first open brace to the brace that closes it.
ObjStrategy2(t) ==
    LET start == Find(t, "{")
        end == IF start = 0 THEN 0 ELSE DepthEnd(t, start, 0, "{", "}")
    IN IF start # 0 /\ end # 0 THEN loads(Slice(t, start, end)) ELSE NoBlock

\* The rung of the ladder that produced the result, and the result.
_parse_competitive_analysis_json(t) ==
    LET try(loaded) == IF loaded.ok THEN _validate_competitive_analysis(loaded.val) ELSE Raise
        s1 == try(ObjStrategy1(t))
        s2 == try(ObjStrategy2(t))
        s3 == try(loads(t))
        s4 == _validate_competitive_analysis(_extract_competitive_analysis_manually(t))
    IN IF ~s1.raised THEN [rung |-> 1, raised |-> FALSE, val |-> s1.val]
       ELSE IF ~s2.raised THEN [rung |-> 2, raised |-> FALSE, val |-> s2.val]
       ELSE IF ~s3.raised THEN [rung |-> 3, raised |-> FALSE, val |-> s3.val]
       ELSE IF ~s4.raised THEN [rung |-> 4, raised |-> FALSE, val |-> s4.val]
       ELSE [rung |-> 5, raised |-> FALSE, val |-> CompetitiveFallback]

\* ------------------------------------------------------------------------
\* ComplianceAgent
\* ------------------------------------------------------------------------

ComplianceKeys ==
    <<"compliance_score", "risk_level", "compliance_risks",
      "regulatory_requirements", "legal_risks", "data_privacy_concerns",
      "recommendations", "required_licenses", "jurisdictions">>

ComplianceListKeys ==
    {"compliance_risks", "regulatory_requirements", "legal_risks",
     "data_privacy_concerns", "recommendations", "required_licenses",
     "jurisdictions"}

_validate_compliance_analysis(analysis) ==
    IF analysis.t # "obj" THEN Raise
    ELSE Ret(JDict(ComplianceKeys,
                   <<Get(analysis, "compliance_score", JNum(5)),
                     Get(analysis, "risk_level", JStr(<<"medium">>)),
                     ListOrEmpty(analysis, "compliance_risks"),
                     ListOrEmpty(analysis, "regulatory_requirements"),
                     ListOrEmpty(analysis, "legal_risks"),
                     ListOrEmpty(analysis, "data_privacy_concerns"),
                     ListOrEmpty(analysis, "recommendations"),
                     ListOrEmpty(analysis, "required_licenses"),
                     ListOrEmpty(analysis, "jurisdictions")>>))

\* The module imports no re (it is imported inside _parse_compliance_analysis
\* only), so the first statement after the initial record, re.search, raises
\* NameError for every text.
_extract_compliance_analysis_manually(t) == Raise

ComplianceFallback ==
    JDict(ComplianceKeys,
          <<JNum(5), JStr(<<"medium">>),
            JList(<<JStr(<<"Analysis incomplete - consult legal experts">>)>>),
            JList(<<>>), JList(<<>>), JList(<<>>),
            JList(<<JStr(<<"Seek legal counsel for comprehensive compliance review">>)>>),
            JList(<<>>), JList(<<>>)>>)

_parse_compliance_analysis(t) ==
    LET try(loaded) == IF loaded.ok THEN _validate_compliance_analysis(loaded.val) ELSE Raise
        s1 == try(ObjStrategy1(t))
        s2 == try(ObjStrategy2(t))
        s3 == try(loads(t))
        m4 == _extract_compliance_analysis_manually(t)
        s4 == IF m4.raised THEN Raise ELSE _validate_compliance_analysis(m4.val)
    IN IF ~s1.raised THEN [rung |-> 1, raised |-> FALSE, val |-> s1.val]
       ELSE IF ~s2.raised THEN [rung |-> 2, raised |-> FALSE, val |-> s2.val]
       ELSE IF ~s3.raised THEN [rung |-> 3, raised |-> FALSE, val |-> s3.val]
       ELSE IF ~s4.raised THEN [rung |-> 4, raised |-> FALSE, val |-> s4.val]
       ELSE [rung |-> 5, raised |-> FALSE, val |-> ComplianceFallback]

\* ------------------------------------------------------------------------
\* EnhancedFounderSearch._score_founder
\* ------------------------------------------------------------------------

ScoreKeys ==
    <<"score", "technical_score", "business_score", "contribution",
      "strengths", "areas_for_improvement">>

\* A variant of the fallback scores with zeros.
FallbackScores_Zero(contribution) ==
    JDict(ScoreKeys,
          <<JNum(0), JNum(0), JNum(0), JStr(<<contribution>>), JList(<<>>), JList(<<>>)>>)

\* The scores of the inner except branch and of the outer one.
FallbackScores(contribution) ==
    JDict(ScoreKeys,
          <<JNum(5), JNum(5), JNum(5), JStr(<<contribution>>), JList(<<>>), JList(<<>>)>>)

\* The model call raises (rung 3); its answer, "{}" when it is empty, is
\* given to json.loads and the six fields are read with .get and their
\* defaults (rung 1); an answer that is no JSON, or JSON that is no dict,
\* lands in the bare except with the fallback scores (rung 2).
_score_founder(callResult, t) ==
    LET analysis == loads(IF t = <<>> THEN <<"{", "}">> ELSE t)
    IN IF callResult = "raises"
       THEN [rung |-> 3, raised |-> FALSE, val |-> FallbackScores("Error in scoring: ")]
       ELSE IF analysis.ok /\ analysis.val.t = "obj"
       THEN [rung |-> 1, raised |-> FALSE,
             val |-> JDict(ScoreKeys,
                           <<Get(analysis.val, "score", JNum(5)),
                             Get(analysis.val, "technical_score", JNum(5)),
                             Get(analysis.val, "business_score", JNum(5)),
                             Get(analysis.val, "contribution",
                                 JStr(<<"Limited information available">>)),
                             Get(analysis.val, "strengths", JList(<<>>)),
                             Get(analysis.val, "areas_for_improvement", JList(<<>>))>>)]
       ELSE [rung |-> 2, raised |-> FALSE,
             val |-> FallbackScores("Limited information available for comprehensive assessment")]

\* ------------------------------------------------------------------------
\* FollowUpAgent
\* ------------------------------------------------------------------------

QuestionKeys == <<"question", "category", "priority", "rationale">>

\* The first bracket (brace) at or after p, Len(t) + 1 when there is none.
NextBracket(t, p) ==
    LET at == {k \in p..Len(t) : TokChar(t[k]) \in {"[", "]"}}
    IN IF at = {} THEN Len(t) + 1 ELSE CHOOSE k \in at : \A m \in at : k <= m

NextBrace(t, p) ==
    LET at == {k \in p..Len(t) : TokChar(t[k]) \in {"{", "}"}}
    IN IF at = {} THEN Len(t) + 1 ELSE CHOOSE k \in at : \A m \in at : k <= m

\* The end of a match of  [^\[\]]*(?:\{[^{}]*\}[^\[\]]*)*\]  from p, or 0,
\* found in the order the backtracking tries: the longest run without
\* brackets first, then shorter runs that stop at an open brace, where a
\* group  \{[^{}]*\}  (which may hold brackets) is skipped.
RECURSIVE ArrRegexEnd(_, _)
ArrRegexEnd(t, p) ==
    LET q == NextBracket(t, p)
        After(k) ==
            IF k = q
            THEN IF q <= Len(t) /\ TokChar(t[q]) = "]" THEN q ELSE 0
            ELSE IF TokChar(t[k]) = "{"
            THEN LET r == NextBrace(t, k + 1)
                 IN IF r <= Len(t) /\ TokChar(t[r]) = "}"
                    THEN ArrRegexEnd(t, r + 1)
                    ELSE 0
            ELSE 0
        good == {k \in p..q : After(k) # 0}
    IN IF good = {} THEN 0
       ELSE After(CHOOSE k \in good : \A m \in good : m <= k)

\* re.search(r'\[[^\[\]]*(?:\{[^{}]*\}[^\[\]]*)*\]', text, re.DOTALL)
ArrRegexSearch(t) ==
    LET starts == {i \in 1..Len(t) :
                      TokChar(t[i]) = "[" /\ ArrRegexEnd(t, i + 1) # 0}
    IN IF starts = {} THEN <<0, 0>>
       ELSE LET i == CHOOSE x \in starts : \A y \in starts : x <= y
            IN <<i, ArrRegexEnd(t, i + 1)>>

\* What iterating over a parsed value yields: the elements of a list; the
\* keys of a dict and the characters of a string are strings (no dicts);
\* a number and None are not iterable (TypeError).
Iterable(v) == v.t \in {"list", "obj", "str"}

Elements(v) ==
    IF v.t = "list" THEN v.items
    ELSE IF v.t = "obj" THEN [i \in 1..Len(v.keys) |-> JStr(<<v.keys[i]>>)]
    ELSE [i \in 1..Len(v.s) |-> JStr(<<v.s[i]>>)]

\* str.strip(): white space at both ends goes.
RECURSIVE Strip(_)
Strip(s) ==
    IF s = <<>> THEN s
    ELSE IF Head(s) = "NL" THEN Strip(Tail(s))
    ELSE IF s[Len(s)] = "NL" THEN Strip(SubSeq(s, 1, Len(s) - 1))
    ELSE s

\* valid_questions[:10] and questions[:10]
FirstTen_All(questions) == questions

FirstTen(questions) == SubSeq(questions, 1, Min(10, Len(questions)))

\* A question the loop of _validate_questions keeps.
Kept(q) == q.t = "obj" /\ Truthy(Get(q, "question", JNone))

\* q.get('question', '').strip() raises AttributeError on a kept question
\* whose text is no string.
_validate_questions(questions) ==
    IF ~Iterable(questions) THEN Raise
    ELSE LET qs == Elements(questions)
             kept == SelectSeq(qs, Kept)
         IN IF \E i \in 1..Len(kept) : Get(kept[i], "question", JNone).t # "str"
            THEN Raise
            ELSE LET valid_questions ==
                         [i \in 1..Len(kept) |->
                            JDict(QuestionKeys,
                                  <<JStr(Strip(Get(kept[i], "question", JNone).s)),
                                    Get(kept[i], "category", JStr(<<"general">>)),
                                    Get(kept[i], "priority", JStr(<<"medium">>)),
                                    Get(kept[i], "rationale", JStr(<<"No rationale provided">>))>>)]
                 IN Ret(JList(FirstTen(valid_questions)))

Canned(question, category, priority, rationale) ==
    JDict(QuestionKeys, <<JStr(<<question>>), JStr(<<category>>),
                          JStr(<<priority>>), JStr(<<rationale>>)>>)

_generate_fallback_questions ==
    JList(<<Canned("What is your team's relevant experience in this industry?",
                   "team", "high", "Team experience is critical for success"),
            Canned("What is your total addressable market (TAM) and how did you calculate it?",
                   "market", "high", "Market size determines investment potential"),
            Canned("What is your unique competitive advantage or moat?",
                   "technology", "high",
                   "Competitive advantage is essential for long-term success"),
            Canned("How do you plan to generate revenue and what are your unit economics?",
                   "business", "medium", "Business model viability is crucial"),
            Canned("What are your biggest risks and how do you plan to mitigate them?",
                   "risk", "medium",
                   "Risk assessment is important for investment decision")>>)

\* The keyword lists of _categorize_question, in the order they are tried.
_categorize_question(question) ==
    LET has(keywords) == \E i \in 1..Len(question) : Words(question[i]) \cap keywords # {}
    IN IF has({"team", "founder", "experience", "background", "execution", "leadership"})
       THEN "team"
       ELSE IF has({"market", "competition", "customer", "demand", "size", "growth"})
       THEN "market"
       ELSE IF has({"technology", "product", "development", "technical", "platform", "ai", "ml"})
       THEN "technology"
       ELSE IF has({"revenue", "business model", "pricing", "cost", "financial", "funding"})
       THEN "business"
       ELSE IF has({"risk", "challenge", "problem", "obstacle", "threat"})
       THEN "risk"
       ELSE "general"

\* text.split('\n')
RECURSIVE SplitLines(_, _, _)
SplitLines(t, i, cur) ==
    IF i > Len(t) THEN <<cur>>
    ELSE IF t[i] = "NL" THEN <<cur>> \o SplitLines(t, i + 1, <<>>)
    ELSE SplitLines(t, i + 1, Append(cur, t[i]))

\* The number of characters of a token's text.
TokLen(tok) ==
    CASE tok \in {"{", "}", "[", "]", ",", "n", "?", "NL"} -> 1
      [] tok = "s" -> 6
      [] tok \in {"so", "sc"} -> 3
      [] tok = "K" -> 18
      [] tok = "Q" -> 11
      [] tok = "S" -> 8
      [] tok = "P" -> 15
      [] tok = "C" -> 19
      [] tok = "M" -> 20
      [] tok = "G" -> 11
      [] tok = "st" -> 6
      [] tok = "r" -> 4
      [] tok = "w" -> 6
      [] tok = "q" -> 18
      [] tok = "i" -> 29
      [] tok = "it" -> 26
      [] OTHER -> 1

\* len() of a line: its tokens, one blank between two of them.
RECURSIVE SumLen(_)
SumLen(s) == IF s = <<>> THEN 0 ELSE TokLen(Head(s)) + SumLen(Tail(s))

StrLen(s) == IF s = <<>> THEN 0 ELSE SumLen(s) + Len(s) - 1

HasQuestionMark(line) == \E i \in 1..Len(line) : line[i] \in {"q", "?"}

\* line.startswith(('1.', ..., '10.'))
StartsNumbered(line) == line # <<>> /\ line[1] = "i"

\* line[line.find('.')+1:].strip() for a numbered line: "it" is the text of
\* "i" after its number.
AfterNumber(line) == <<"it">> \o Tail(line)

_extract_questions_manually(t) ==
    LET lines == SplitLines(t, 1, <<>>)
        stripped == [i \in 1..Len(lines) |-> Strip(lines[i])]
        question(line) == IF StartsNumbered(line) THEN AfterNumber(line) ELSE line
        taken(line) ==
            /\ line # <<>>
            /\ HasQuestionMark(line) \/ StartsNumbered(line)
            /\ question(line) # <<>>
            /\ StrLen(question(line)) > 10
        picked == SelectSeq(stripped, taken)
        questions ==
            [i \in 1..Len(picked) |->
                JDict(QuestionKeys,
                      <<JStr(question(picked[i])),
                        JStr(<<_categorize_question(question(picked[i]))>>),
                        JStr(<<"medium">>),
                        JStr(<<"Extracted from response">>)>>)]
    IN JList(FirstTen(questions))

ArrStrategy1(t) ==
    LET m == ArrRegexSearch(t)
    IN IF m[1] # 0 THEN loads(Slice(t, m[1], m[2])) ELSE NoBlock

ArrStrategy2(t) ==
    LET start == Find(t, "[")
        end == IF start = 0 THEN 0 ELSE DepthEnd(t, start, 0, "[", "]")
    IN IF start # 0 /\ end # 0 THEN loads(Slice(t, start, end)) ELSE NoBlock

_parse_and_categorize_questions(t) ==
    LET try(loaded) == IF loaded.ok THEN _validate_questions(loaded.val) ELSE Raise
        s1 == try(ArrStrategy1(t))
        s2 == try(ArrStrategy2(t))
        s3 == try(loads(t))
        s4 == _validate_questions(_extract_questions_manually(t))
    IN IF ~s1.raised THEN [rung |-> 1, raised |-> FALSE, val |-> s1.val]
       ELSE IF ~s2.raised THEN [rung |-> 2, raised |-> FALSE, val |-> s2.val]
       ELSE IF ~s3.raised THEN [rung |-> 3, raised |-> FALSE, val |-> s3.val]
       ELSE IF ~s4.raised THEN [rung |-> 4, raised |-> FALSE, val |-> s4.val]
       ELSE [rung |-> 5, raised |-> FALSE, val |-> _generate_fallback_questions]

\* Category counts in the order the categories first occur; a category that
\* is a list or a dict cannot be a key (TypeError).
CategoryKey(q) ==
    LET c == Get(q, "category", JStr(<<"general">>))
    IN IF c.t = "str" /\ Len(c.s) = 1 THEN c.s[1] ELSE "other"

_get_question_categories(questions) ==
    IF \E i \in 1..Len(questions) :
          Get(questions[i], "category", JStr(<<"general">>)).t \in {"list", "obj"}
    THEN Raise
    ELSE LET firsts == SelectSeq([i \in 1..Len(questions) |-> i],
                                 LAMBDA i : \A j \in 1..(i - 1) :
                                    CategoryKey(questions[j]) # CategoryKey(questions[i]))
             count(c) == Cardinality({j \in 1..Len(questions) : CategoryKey(questions[j]) = c})
         IN Ret(JDict([k \in 1..Len(firsts) |-> CategoryKey(questions[firsts[k]])],
                      [k \in 1..Len(firsts) |-> JNum(count(CategoryKey(questions[firsts[k]])))]))

FollowupKeys == <<"followup_questions", "total_questions", "categories", "priority_questions">>

FollowupError ==
    JDict(FollowupKeys,
          <<JList(<<JDict(<<"question", "category">>,
                          <<JStr(<<"Error generating questions: ">>), JStr(<<"error">>)>>)>>),
            JNum(1),
            JList(<<JStr(<<"error">>)>>),
            JList(<<>>)>>)

\* questions[:3] if len(questions) >= 3 else questions
priority_questions(questions) ==
    IF Len(questions) >= 3 THEN SubSeq(questions, 1, 3) ELSE questions

\* callResult is the outcome of client.chat.completions.create: "raises",
\* or "ok" with the response text t.
generate_followup_questions(callResult, t) ==
    IF callResult = "raises" THEN [rung |-> 0, raised |-> FALSE, val |-> FollowupError]
    ELSE LET result(parsed, categories) ==
                 IF categories.raised
                 THEN [rung |-> parsed.rung, raised |-> FALSE, val |-> FollowupError]
                 ELSE [rung |-> parsed.rung, raised |-> FALSE,
                       val |-> JDict(FollowupKeys,
                                     <<parsed.val, JNum(Len(parsed.val.items)),
                                       categories.val,
                                       JList(priority_questions(parsed.val.items))>>)]
             categorized(parsed) ==
                 CHOOSE r \in {result(parsed, c) :
                                 c \in {_get_question_categories(parsed.val.items)}} : TRUE
         IN CHOOSE r \in {categorized(p) : p \in {_parse_and_categorize_questions(t)}} : TRUE

\* ------------------------------------------------------------------------
\* ViabilityAgent
\* ------------------------------------------------------------------------

\* re.search(r'\{.*\}', text, re.DOTALL): from the first open brace to the
\* last close brace after it.
GreedyBraceSearch(t) ==
    LET start == Find(t, "{")
        ends == {j \in (start + 1)..Len(t) : TokChar(t[j]) = "}"}
    IN IF start = 0 \/ ends = {} THEN <<0, 0>>
       ELSE <<start, CHOOSE j \in ends : \A k \in ends : k <= j>>

ViabilityFallbackKeys ==
    <<"score", "explanation", "risk_factors", "strengths", "recommendation">>

\* rung 1: the parsed object as it is; 2: no braces in the text; 3: the
\* except branch.  The modelled texts are shorter than 200 characters, so
\* assessment_text[:200] is the whole text.
_parse_viability_assessment(t) ==
    LET m == GreedyBraceSearch(t)
        r == loads(Slice(t, m[1], m[2]))
    IN IF m[1] # 0
       THEN IF r.ok
            THEN [rung |-> 1, raised |-> FALSE, val |-> r.val]
            ELSE [rung |-> 3, raised |-> FALSE,
                  val |-> JDict(ViabilityFallbackKeys,
                                <<JNum(5), JStr(<<"Error parsing assessment: ">>),
                                  JList(<<JStr(<<"Technical error">>)>>), JList(<<>>),
                                  JStr(<<"More research needed">>)>>)]
       ELSE [rung |-> 2, raised |-> FALSE,
             val |-> JDict(ViabilityFallbackKeys,
                           <<JNum(5), JStr(t \o <<"...">>),
                             JList(<<JStr(<<"Incomplete analysis">>)>>), JList(<<>>),
                             JStr(<<"More research needed">>)>>)]

\* ------------------------------------------------------------------------
\* SimpleAnalysisService
\* ------------------------------------------------------------------------

ProjectInfoKeys ==
    <<"project_name", "description", "problem_statement", "solution",
      "target_market", "business_model">>

\* rung 1: the parsed object as it is; 2: no braces in the text; 3: the
\* except branch.
_extract_project_info(t) ==
    LET m == GreedyBraceSearch(t)
        r == loads(Slice(t, m[1], m[2]))
    IN IF m[1] # 0
       THEN IF r.ok
            THEN [rung |-> 1, raised |-> FALSE, val |-> r.val]
            ELSE [rung |-> 3, raised |-> FALSE,
                  val |-> JDict(ProjectInfoKeys,
                                <<JStr(<<"Analysis Error">>),
                                  JStr(<<"Error parsing analysis: ">>),
                                  JStr(<<>>), JStr(<<>>), JStr(<<>>), JStr(<<>>)>>)]
       ELSE [rung |-> 2, raised |-> FALSE,
             val |-> JDict(ProjectInfoKeys,
                           <<JStr(<<"Extracted Project">>), JStr(t \o <<"...">>),
                             JStr(<<"Analysis completed">>), JStr(<<"See full analysis">>),
                             JStr(<<"See full analysis">>), JStr(<<"See full analysis">>)>>)]

\* The profile of the except branch of analyze_project_content.
AnalysisFailed ==
    JDict(ProjectInfoKeys,
          <<JStr(<<"Analysis Failed">>), JStr(<<"Error during analysis: ">>),
            JStr(<<>>), JStr(<<>>), JStr(<<>>), JStr(<<>>)>>)

ProjectInfoDefaults ==
    <<JStr(<<"Unknown Project">>), JStr(<<>>), JStr(<<>>), JStr(<<>>), JStr(<<>>), JStr(<<>>)>>

\* ProjectSummary(...) validates its str fields: a string is taken, a number
\* is turned into its text by a lax validator and refused by a strict one,
\* anything else is refused (ValidationError).
Accepted(v, lax) == v.t = "str" \/ (v.t = "num" /\ lax)

AsStr(v) == IF v.t = "num" THEN JStr(<<"5">>) ELSE v

\* callResult is the outcome of client.chat.completions.create: "raises",
\* or "ok" with the response text t.  rung 0: the model call raised.
analyze_project_content(callResult, t, lax) ==
    IF callResult = "raises"
    THEN [rung |-> 0, raised |-> FALSE, val |-> AnalysisFailed]
    ELSE LET project_info == _extract_project_info(t)
             fields == [i \in 1..Len(ProjectInfoKeys) |->
                           Get(project_info.val, ProjectInfoKeys[i], ProjectInfoDefaults[i])]
         IN IF \A i \in 1..Len(fields) : Accepted(fields[i], lax)
            THEN [rung |-> project_info.rung, raised |-> FALSE,
                  val |-> JDict(ProjectInfoKeys, [i \in 1..Len(fields) |-> AsStr(fields[i])])]
            ELSE [rung |-> project_info.rung, raised |-> FALSE,
                  val |-> AnalysisFailed]

\* ------------------------------------------------------------------------
\* The variables of one family keep these values in the runs of another
\* ------------------------------------------------------------------------

NoOut == [op |-> "none", rung |-> 0, raised |-> FALSE, val |-> JNone]

ParkedParsers == text = <<>> /\ out = NoOut

NoReport == [status |-> "none", analysis_completed |-> FALSE]

ParkedUpload ==
    /\ file = [filename |-> "", holds |-> "empty"]
    /\ pc = "parked" /\ log = <<>> /\ results = <<>> /\ report = NoReport

NoGitroll == [present |-> FALSE, success |-> FALSE, score |-> JNone, user_id |-> JNone]

NoLocals ==
    [google_info |-> "none", github_info |-> [kind |-> "none", login |-> ""],
     user_id |-> JNone, gitroll_info |-> NoGitroll]

NoResponse == [kind |-> "none", founders |-> <<>>]
NotExtracted == [done |-> FALSE, by |-> "none", founders |-> <<>>]

ParkedExtract ==
    deck_names = {} /\ response = NoResponse /\ extracted = NotExtracted

ParkedFounders ==
    /\ founders_data = <<>> /\ fpc = [i |-> 0, at |-> "parked"]
    /\ locals = NoLocals /\ elapsed = 0 /\ founders_info = <<>> /\ calls = {}

NoRepos == [done |-> FALSE, repos |-> <<>>]

ParkedRepos == deck_urls = {} /\ repo_founders = <<>> /\ repos_analysis = NoRepos

ParkedRepeat == hashseed = 0 /\ reports = <<>>

NoPipeline == [at |-> 0]

ParkedCascade == pipeline = NoPipeline

NoStatus == [success |-> FALSE, status |-> "none", message |-> "", score |-> JNone]

NoWait ==
    [max_wait_time |-> 0, elapsed |-> 0, checks |-> 0, started |-> 0,
     last |-> NoStatus, at |-> "parked", result |-> NoStatus]

ParkedWait == wait = NoWait

NoLoop == [holder |-> 0]

ParkedLoop == loop = NoLoop

NoMarket == [done |-> FALSE]

ParkedMarket == market = NoMarket

NoProject == [at |-> "parked"]

ParkedProject == project = NoProject

ParkedLast == ParkedLoop /\ ParkedMarket /\ ParkedProject

ParkedLater == ParkedRepos /\ ParkedRepeat /\ ParkedCascade /\ ParkedWait /\ ParkedLast

\* ------------------------------------------------------------------------
\* Classification by thresholds
\* ------------------------------------------------------------------------

MaxCount == 12
MaxDays == 93
TicksPerDay == 2

\* A variant that counts nine competitors as a medium market.
_calculate_market_saturation_Nine(competitor_count) ==
    IF competitor_count = 0 THEN "low"
    ELSE IF competitor_count <= 3 THEN "low"
    ELSE IF competitor_count <= 9 THEN "medium"
    ELSE "high"

\* CompetitorAgent._calculate_market_saturation
_calculate_market_saturation(competitor_count) ==
    IF competitor_count = 0 THEN "low"
    ELSE IF competitor_count <= 3 THEN "low"
    ELSE IF competitor_count <= 8 THEN "medium"
    ELSE "high"

\* A variant that counts a started day as a whole one.
Days_RoundedUp(now, last_update) ==
    (now - last_update + TicksPerDay - 1) \div TicksPerDay

\* timedelta.days: the whole days of a difference of instants, rounded
\* down (a negative difference of less than a day is -1 day).
Days(now, last_update) == (now - last_update) \div TicksPerDay

\* repo_data["updated_at"] is absent, None, "", a text that is no ISO
\* timestamp, a value that is no string, or a timestamp (an instant in
\* ticks).  fromisoformat raises ValueError on a text that is no timestamp
\* and .replace raises AttributeError on a value that is no string; the
\* except branch answers both.
_assess_activity(repo_data, now) ==
    LET updated_at == repo_data.updated_at
    IN IF updated_at.kind \in {"absent", "none", "empty"} THEN "Desconocido"
       ELSE IF updated_at.kind \in {"garbage", "number"} THEN "Desconocido"
       ELSE LET days_since_update == Days(now, updated_at.at)
            IN IF days_since_update <= 7 THEN "Muy Alta"
               ELSE IF days_since_update <= 30 THEN "Alta"
               ELSE IF days_since_update <= 90 THEN "Media"
               ELSE "Baja"

\* The instant of datetime.now() in the runs of the model.
Now == MaxDays * TicksPerDay

Timestamps ==
    [kind : {"time"}, at : 0..(Now + TicksPerDay)]
      \cup [kind : {"absent", "none", "empty", "garbage", "number"}, at : {0}]

NoArg == [f |-> "none", n |-> 0, updated_at |-> [kind |-> "absent", at |-> 0]]
NoRes == "none"

ParkedBuckets == arg = NoArg /\ res = NoRes

InitBuckets ==
    /\ \/ \E n \in 0..MaxCount :
             arg = [f |-> "saturation", n |-> n, updated_at |-> NoArg.updated_at]
       \/ \E u \in Timestamps :
             arg = [f |-> "activity", n |-> 0, updated_at |-> u]
    /\ res = NoRes
    /\ ParkedParsers /\ ParkedUpload /\ ParkedFounders /\ ParkedExtract /\ ParkedLater

CalculateMarketSaturation ==
    /\ arg.f = "saturation" /\ res = NoRes
    /\ res' = _calculate_market_saturation(arg.n)
    /\ UNCHANGED <<arg, parserVars, uploadVars, founderVars, extractVars, laterVars>>

AssessActivity ==
    /\ arg.f = "activity" /\ res = NoRes
    /\ res' = _assess_activity(arg, Now)
    /\ UNCHANGED <<arg, parserVars, uploadVars, founderVars, extractVars, laterVars>>

NextBuckets == CalculateMarketSaturation \/ AssessActivity

SpecBuckets == InitBuckets /\ [][NextBuckets]_vars

\* ------------------------------------------------------------------------
\* The parsers applied to the text of a model response
\* ------------------------------------------------------------------------

\* Tokens of the exhaustively enumerated responses.
FreeAlphabet == {"{", "}", "[", "]", ",", "K", "Q", "s"}

\* Responses with eleven questions: a JSON list, a JSON list whose first
\* question holds a list with a question whose text is a number, and
\* eleven lines of prose.
RECURSIVE Repeat(_, _)
Repeat(s, n) == IF n = 0 THEN <<>> ELSE s \o Repeat(s, n - 1)

ElevenQuestions ==
    <<"[", "{", "Q", "s", "}">> \o Repeat(<<",", "{", "Q", "s", "}">>, 10) \o <<"]">>

ElevenNested ==
    <<"[", "{", "Q", "s", ",", "K", "[", "{", "Q", "n", "}", "]", "}">>
        \o Repeat(<<",", "{", "Q", "s", "}">>, 10) \o <<"]">>

ElevenLines == <<"q">> \o Repeat(<<"NL", "q">>, 10)

\* Longer responses: a well-formed question list, a list of four
\* questions, an object whose strings hold braces, an object nested three
\* deep inside prose, prose with questions, a question whose text is a
\* number, a score object, a list spread over lines, an object with a list
\* field, an object whose string holds a closing brace, and a question that
\* holds a list with a question whose text is a number.
CuratedTexts ==
    { <<"[", "{", "Q", "s", "}", "]">>,
      <<"[", "{", "Q", "s", "}", ",", "{", "Q", "s", "}", ",",
        "{", "Q", "s", "}", ",", "{", "Q", "s", "}", "]">>,
      <<"{", "K", "so", ",", "Q", "{", "K", "sc", "}", "}">>,
      <<"w", "{", "K", "{", "K", "{", "}", "}", "}", "w">>,
      <<"w", "{", "K", "[", "s", "]", ",", "Q", "{", "Q", "{", "}", "}", "}", "w">>,
      <<"w", "{", "K", "[", "s", "]", ",", "Q", "{", "Q", "s", "}", "}", "w">>,
      <<"q", "NL", "i", "NL", "?", "w", "NL", "q">>,
      <<"q", "NL", "q", "?", "NL", "i", "NL", "w", "q", "NL", "q", "w">>,
      <<"[", "{", "Q", "n", "}", "]">>,
      <<"{", "S", "n", "}">>,
      <<"NL", "[", "NL", "{", "Q", "s", "}", "NL", "]", "NL">>,
      <<"{", "K", "[", "s", "]", "}">>,
      <<"{", "K", "sc", "}">>,
      <<"[", "{", "Q", "s", ",", "K", "[", "{", "Q", "n", "}", "]", "}", "]">>,
      <<"w", "s", "w">>,
      <<"n">>,
      <<"{", "P", "s", "}">>,
      <<"w", "{", "P", "s", "}", "w">>,
      <<"{", "P", "n", "}">>,
      <<"{", "P", "[", "s", "]", "}">>,
      <<"{", "S", "s", "}">>,
      <<"{", "C", "s", "}">>,
      <<"{", "C", "n", "}">>,
      <<"w", "{", "C", "s", ",", "K", "[", "s", "]", "}">>,
      <<"[", "{", "Q", "st", "}", "]">>,
      <<"[", "{", "Q", "st", ",", "G", "s", "}", "]">>,
      <<"w", "[", "{", "Q", "st", "}", "]">>,
      <<"st", "?", "w", "w">>,
      <<"s", "r">>,
      <<"w", "s", "r", "w", "NL", "w">>,
      ElevenQuestions,
      ElevenNested,
      ElevenLines }

Texts == SeqsUpTo(FreeAlphabet, MaxLen) \cup CuratedTexts

Outcome(op, r) == [op |-> op, rung |-> r.rung, raised |-> r.raised, val |-> r.val]

InitParsers ==
    /\ text \in Texts
    /\ out = NoOut
    /\ ParkedBuckets /\ ParkedUpload /\ ParkedFounders /\ ParkedExtract /\ ParkedLater

ParseCompetitive ==
    /\ out = NoOut
    /\ out' = Outcome("competitive", _parse_competitive_analysis_json(text))
    /\ UNCHANGED <<text, bucketVars, uploadVars, founderVars, extractVars, laterVars>>

ParseCompliance ==
    /\ out = NoOut
    /\ out' = Outcome("compliance", _parse_compliance_analysis(text))
    /\ UNCHANGED <<text, bucketVars, uploadVars, founderVars, extractVars, laterVars>>

ParseQuestions ==
    /\ out = NoOut
    /\ out' = Outcome("questions", _parse_and_categorize_questions(text))
    /\ UNCHANGED <<text, bucketVars, uploadVars, founderVars, extractVars, laterVars>>

ParseViability ==
    /\ out = NoOut
    /\ out' = Outcome("viability", _parse_viability_assessment(text))
    /\ UNCHANGED <<text, bucketVars, uploadVars, founderVars, extractVars, laterVars>>

\* The model call of generate_followup_questions answers with the text or
\* raises.
GenerateFollowupQuestions ==
    /\ out = NoOut
    /\ \E callResult \in {"ok", "raises"} :
          out' = Outcome("followup", generate_followup_questions(callResult, text))
    /\ UNCHANGED <<text, bucketVars, uploadVars, founderVars, extractVars, laterVars>>

\* The model call of analyze_project_content answers with the text or
\* raises; the installed validator is lax or strict.
AnalyzeProjectContent ==
    /\ out = NoOut
    /\ \E callResult \in {"ok", "raises"}, lax \in BOOLEAN :
          out' = Outcome("content", analyze_project_content(callResult, text, lax))
    /\ UNCHANGED <<text, bucketVars, uploadVars, founderVars, extractVars, laterVars>>

\* The model call of _score_founder answers with the text or raises.
ScoreFounderAnswer ==
    /\ out = NoOut
    /\ \E callResult \in {"ok", "raises"} :
          out' = Outcome("score", _score_founder(callResult, text))
    /\ UNCHANGED <<text, bucketVars, uploadVars, founderVars, extractVars, laterVars>>

NextParsers ==
    \/ AnalyzeProjectContent
    \/ ScoreFounderAnswer
    \/ ParseCompetitive
    \/ ParseCompliance
    \/ ParseQuestions
    \/ ParseViability
    \/ GenerateFollowupQuestions

SpecParsers == InitParsers /\ [][NextParsers]_vars

\* ------------------------------------------------------------------------
\* The upload pipeline: analyze_project_upload
\* ------------------------------------------------------------------------

\* filename.lower().split('.')[-1]: the text after the last dot in lower
\* case, the whole name when it has no dot.  "" is a file without a name.
Filenames == {"deck.pdf", "DECK.PDF", "deck.pptx", "deck.docx", "notes.txt",
              "readme.md", "deck.exe", "deck", ""}

Ext(filename) ==
    CASE filename \in {"deck.pdf", "DECK.PDF"} -> "pdf"
      [] filename = "deck.pptx" -> "pptx"
      [] filename = "deck.docx" -> "docx"
      [] filename = "notes.txt" -> "txt"
      [] filename = "readme.md" -> "md"
      [] filename = "deck.exe" -> "exe"
      [] OTHER -> filename

\* What the bytes of the file hold: a document the extractor cannot read
\* (it raises), no text, white space only, or text.
Holds == {"corrupt", "empty", "blank", "text"}

\* The extraction of the text.  The extractors of pdf, pptx and docx raise
\* on bytes they cannot read; txt and md are decoded, with latin-1 when
\* utf-8 fails, which never raises and yields text.
Extract(f) ==
    IF f.holds = "corrupt"
    THEN IF Ext(f.filename) \in {"txt", "md"} THEN Ret("text") ELSE Raise
    ELSE Ret(f.holds)

\* A variant that takes white space for text.
IsBlank_EmptyOnly(deck_content) == deck_content = "empty"

\* not deck_content or not deck_content.strip()
IsBlank(deck_content) == deck_content \in {"empty", "blank"}

\* The stage functions in the order analyze_project_upload awaits them.
StageOrder ==
    <<"analyze_project_content", "assess_viability", "extract_and_search_founders",
      "analyze_github_repos", "generate_simple_summary", "analyze_competitors",
      "analyze_compliance_risks", "generate_followup_questions">>

\* A variant whose except branch is missing: a failed call leaves the stage
\* function as an exception.
StageFunction_Propagates(stage, call) ==
    IF call = "fails" THEN [raised |-> TRUE, val |-> "none"]
    ELSE [raised |-> FALSE, val |-> "model"]

\* A stage function runs its body, the model call or the lookups included,
\* in try/except Exception, and its except branch returns the default
\* result of the stage: the function returns in both cases.
StageFunction(stage, call) ==
    LET body == IF call = "fails" THEN [raised |-> TRUE, val |-> "none"]
                ELSE [raised |-> FALSE, val |-> "model"]
    IN IF body.raised THEN [raised |-> FALSE, val |-> "default"] ELSE body

ErrorReport == [status |-> "error", analysis_completed |-> FALSE]
SuccessReport == [status |-> "success", analysis_completed |-> TRUE]

InitUpload ==
    /\ file \in [filename : Filenames, holds : Holds]
    /\ pc = "start" /\ log = <<>> /\ results = <<>> /\ report = NoReport
    /\ ParkedParsers /\ ParkedBuckets /\ ParkedFounders /\ ParkedExtract /\ ParkedLater

\* Lines 81-151: the type of the file, the extraction and the blank check.
\* An extractor that raises lands in the except branch of the handler.
Receive ==
    /\ pc = "start"
    /\ LET ext == Ext(file.filename)
           deck_content == Extract(file)
       IN IF ext \notin {"pdf", "pptx", "docx", "txt", "md"}
          THEN pc' = "done" /\ report' = ErrorReport
          ELSE IF deck_content.raised
          THEN pc' = "done" /\ report' = ErrorReport
          ELSE IF IsBlank(deck_content.val)
          THEN pc' = "done" /\ report' = ErrorReport
          ELSE pc' = "stages" /\ UNCHANGED report
    /\ UNCHANGED <<file, log, results, parserVars, bucketVars, founderVars, extractVars, laterVars>>

\* The next await of the handler: the stage function is called, its model
\* call or lookup succeeds or fails, and what it returns is kept.  A stage
\* function that raised would land in the except branch of the handler.
RunStage ==
    /\ pc = "stages" /\ Len(log) < Len(StageOrder)
    /\ \E call \in {"ok", "fails"} :
          LET stage == StageOrder[Len(log) + 1]
              r == StageFunction(stage, call)
          IN /\ log' = Append(log, stage)
             /\ IF r.raised
                THEN pc' = "done" /\ report' = ErrorReport /\ UNCHANGED results
                ELSE /\ results' = Append(results, r.val)
                     /\ UNCHANGED <<pc, report>>
    /\ UNCHANGED <<file, parserVars, bucketVars, founderVars, extractVars, laterVars>>

\* Lines 231-302: the complete response.
Respond ==
    /\ pc = "stages" /\ Len(log) = Len(StageOrder)
    /\ pc' = "done" /\ report' = SuccessReport
    /\ UNCHANGED <<file, log, results, parserVars, bucketVars, founderVars, extractVars, laterVars>>

NextUpload == Receive \/ RunStage \/ Respond

SpecUpload == InitUpload /\ [][NextUpload]_vars

\* ------------------------------------------------------------------------
\* Founder enrichment: extract_and_search_founders and the scan polling
\* ------------------------------------------------------------------------

MaxFounders == 2
MaxCheckSeconds == 5

\* wait_for_scan_completion(scan_id, max_wait_time=300) and its
\* time.sleep(10) between two checks.
max_wait_time == 300
sleep_seconds == 10

Candidates == {"Ann Lee", "Bo Chen"}

Login(name) == IF name = "Ann Lee" THEN "annlee" ELSE "bochen"

\* What _get_github_profile returns: None, the profile as a dict with or
\* without a login, or, when the API answers with JSON that is no dict, a
\* non-empty list.
GithubProfiles(name) ==
    { [kind |-> "none", login |-> ""], [kind |-> "dict", login |-> ""],
      [kind |-> "dict", login |-> Login(name)], [kind |-> "list", login |-> ""] }

\* A variant of the time-out result that answers like a finished scan.
TimeoutResult_Success ==
    [present |-> TRUE, success |-> TRUE, score |-> JNone, user_id |-> JNone]

\* The dict wait_for_scan_completion returns when the time is up.
TimeoutResult ==
    [present |-> TRUE, success |-> FALSE, score |-> JNone, user_id |-> JNone]

\* The status dict of check_scan_status when the profile page has a score.
CompletedStatus ==
    [present |-> TRUE, success |-> TRUE, score |-> JNum(7), user_id |-> JNone]

\* A variant of the except branch that returns an empty dict.
DegradedRecord_Empty(name) ==
    [name |-> "", degraded |-> TRUE, score |-> JNone,
     technical_score |-> JNone, business_score |-> JNone,
     contribution |-> JNone, linkedin |-> "", github |-> "",
     gitroll_user_id |-> JNone, gitroll_score |-> JNone, empty |-> TRUE]

\* The except branch of _search_founder_info_comprehensive.
DegradedRecord(name) ==
    [name |-> name, degraded |-> TRUE, score |-> JNum(0),
     technical_score |-> JNum(0), business_score |-> JNum(0),
     contribution |-> JStr(<<"Error occurred during search">>),
     linkedin |-> "", github |-> "",
     gitroll_user_id |-> JNone, gitroll_score |-> JNone, empty |-> FALSE]

\* google_info.get("linkedin", ""): the profile of the person found.
Linkedin(google_info) == IF google_info = "found" THEN "linkedin.com/in/found" ELSE ""

\* The record _search_founder_info_comprehensive combines (lines 218-236):
\* the scores of _score_founder and the fields of the lookups.
FounderRecord(name, founder_score, found) ==
    LET gitroll_info == found.gitroll_info
    IN
    [name |-> name, degraded |-> FALSE,
     score |-> Get(founder_score, "score", JNone),
     technical_score |-> Get(founder_score, "technical_score", JNone),
     business_score |-> Get(founder_score, "business_score", JNone),
     contribution |-> Get(founder_score, "contribution", JNone),
     linkedin |-> Linkedin(found.google_info),
     github |-> found.github_info.login,
     gitroll_user_id |-> IF gitroll_info.present /\ gitroll_info.success
                         THEN gitroll_info.user_id ELSE JNone,
     gitroll_score |-> IF gitroll_info.present /\ gitroll_info.success
                       THEN gitroll_info.score ELSE JNone,
     empty |-> FALSE]

\* if founder_info: founders_info.append(founder_info)
AppendIfAny(infos, founder_info) ==
    IF founder_info.empty THEN infos ELSE Append(infos, founder_info)

InitFounders ==
    /\ founders_data \in SeqsUpTo(Candidates, MaxFounders)
    /\ fpc = [i |-> 1, at |-> "loop"]
    /\ locals = NoLocals /\ elapsed = 0 /\ founders_info = <<>> /\ calls = {}
    /\ ParkedParsers /\ ParkedBuckets /\ ParkedUpload /\ ParkedExtract /\ ParkedLater

\* The head of the for loop, and the return after its last round.
NextFounder ==
    /\ fpc.at = "loop"
    /\ fpc' = IF fpc.i <= Len(founders_data)
              THEN [fpc EXCEPT !.at = "google"]
              ELSE [fpc EXCEPT !.at = "done"]
    /\ UNCHANGED <<founders_data, locals, elapsed, founders_info, calls,
                   parserVars, bucketVars, uploadVars, extractVars, laterVars>>

\* google_search_service.search_person: it returns the person found or,
\* from its own except branch, the empty result.
SearchPerson ==
    /\ fpc.at = "google"
    /\ \E g \in {"found", "empty"} :
          locals' = [NoLocals EXCEPT !.google_info = g]
    /\ fpc' = [fpc EXCEPT !.at = "github"]
    /\ calls' = calls \cup {<<fpc.i, "search_person">>}
    /\ UNCHANGED <<founders_data, elapsed, founders_info,
                   parserVars, bucketVars, uploadVars, extractVars, laterVars>>

\* _get_github_profile and the lines that read its result: .get on a
\* non-empty list raises AttributeError, which the except branch of
\* _search_founder_info_comprehensive answers with the degraded record.
GetGithubProfile ==
    /\ fpc.at = "github"
    /\ \E github_info \in GithubProfiles(founders_data[fpc.i]) :
          IF github_info.kind = "list"
          THEN /\ founders_info' =
                     AppendIfAny(founders_info, DegradedRecord(founders_data[fpc.i]))
               /\ calls' = calls \cup {<<fpc.i, "_get_github_profile">>, <<fpc.i, "except">>}
               /\ fpc' = [i |-> fpc.i + 1, at |-> "loop"]
               /\ UNCHANGED locals
          ELSE /\ locals' = [locals EXCEPT !.github_info = github_info]
               /\ calls' = calls \cup {<<fpc.i, "_get_github_profile">>}
               /\ fpc' = [fpc EXCEPT !.at = IF github_info.login # ""
                                             THEN "initiate" ELSE "score"]
               /\ UNCHANGED founders_info
    /\ UNCHANGED <<founders_data, elapsed, parserVars, bucketVars, uploadVars, extractVars, laterVars>>

\* gitroll_service.initiate_scan: success with a scan id, success without
\* one, or failure (its own except branch included).  user_id is the
\* user_id of the answer or the username.
InitiateScan ==
    /\ fpc.at = "initiate"
    /\ \E success \in BOOLEAN, scan_id \in BOOLEAN, user_id \in {"u1", locals.github_info.login} :
          IF success /\ scan_id
          THEN /\ locals' = [locals EXCEPT !.user_id = JStr(<<user_id>>)]
               /\ fpc' = [fpc EXCEPT !.at = "wait"]
          ELSE /\ UNCHANGED locals
               /\ fpc' = [fpc EXCEPT !.at = "score"]
    /\ elapsed' = 0
    /\ calls' = calls \cup {<<fpc.i, "initiate_scan">>}
    /\ UNCHANGED <<founders_data, founders_info, parserVars, bucketVars, uploadVars, extractVars, laterVars>>

\* One round of the while loop of wait_for_scan_completion: the check takes
\* some seconds; a completed status is returned, any other is followed by
\* the sleep.  gitroll_info["user_id"] is set on what it returned.
CheckScanStatus ==
    /\ fpc.at = "wait" /\ elapsed < max_wait_time
    /\ \E took \in {0, MaxCheckSeconds}, status \in {"completed", "processing", "failed"} :
          IF status = "completed"
          THEN /\ locals' = [locals EXCEPT !.gitroll_info =
                                 [CompletedStatus EXCEPT !.user_id = locals.user_id]]
               /\ fpc' = [fpc EXCEPT !.at = "score"]
               /\ calls' = calls \cup {<<fpc.i, "completed">>}
               /\ elapsed' = 0
          ELSE /\ elapsed' = elapsed + took + sleep_seconds
               /\ UNCHANGED <<locals, fpc, calls>>
    /\ UNCHANGED <<founders_data, founders_info, parserVars, bucketVars, uploadVars, extractVars, laterVars>>

\* The while loop ends without a completed status.
Timeout ==
    /\ fpc.at = "wait" /\ elapsed >= max_wait_time
    /\ locals' = [locals EXCEPT !.gitroll_info =
                      [TimeoutResult EXCEPT !.user_id = locals.user_id]]
    /\ fpc' = [fpc EXCEPT !.at = "score"]
    /\ calls' = calls \cup {<<fpc.i, "timeout">>}
    /\ elapsed' = 0
    /\ UNCHANGED <<founders_data, founders_info, parserVars, bucketVars, uploadVars, extractVars, laterVars>>

\* Answers of the scoring call: scores, JSON that is no dict, no JSON.
ScoreTexts == {<<"{", "S", "n", "}">>, <<"[", "]">>, <<"w">>}

\* _score_founder returns the scores of the model or, when the call fails
\* or its answer is no JSON dict, scores of 5.0; the record is combined
\* with what the lookups found and appended.
ScoreFounder ==
    /\ fpc.at = "score"
    /\ \E callResult \in {"ok", "raises"}, t \in ScoreTexts :
          LET founder_score == _score_founder(callResult, t)
          IN /\ founders_info' =
                   AppendIfAny(founders_info,
                               FounderRecord(founders_data[fpc.i], founder_score.val, locals))
             /\ calls' = calls \cup {<<fpc.i, "_score_founder">>}
                            \cup (IF founder_score.rung # 1
                                  THEN {<<fpc.i, "scoring failed">>} ELSE {})
                            \cup (IF locals.google_info = "found"
                                  THEN {<<fpc.i, "person found">>} ELSE {})
                            \cup (IF locals.github_info.login # ""
                                  THEN {<<fpc.i, "login found">>} ELSE {})
    /\ fpc' = [i |-> fpc.i + 1, at |-> "loop"]
    /\ UNCHANGED <<founders_data, locals, elapsed, parserVars, bucketVars, uploadVars, extractVars, laterVars>>

NextFounders ==
    \/ NextFounder \/ SearchPerson \/ GetGithubProfile \/ InitiateScan
    \/ CheckScanStatus \/ Timeout \/ ScoreFounder

SpecFounders == InitFounders /\ [][NextFounders]_vars

\* ------------------------------------------------------------------------
\* Founder extraction: _extract_founders_with_bios and _extract_names_regex
\* ------------------------------------------------------------------------

MaxCandidates == 2
MaxWords == 5

\* A name is words words of wl letters joined by sep (a blank or a line
\* break), with a blank before and after it when pad.
Names ==
    [words : {0}, wl : {0}, sep : {" "}, pad : BOOLEAN]
      \cup [words : {1}, wl : {1, 2, 3, 99, 100, 101}, sep : {" "}, pad : BOOLEAN]
      \cup [words : 2..MaxWords, wl : {4}, sep : {" ", "\n"}, pad : {FALSE}]
      \cup [words : {2}, wl : {50}, sep : {" "}, pad : {FALSE}]

\* len(name.strip()) and name.strip()
NameLen(name) == IF name.words = 0 THEN 0 ELSE name.words * name.wl + name.words - 1
StripName(name) == [name EXCEPT !.pad = FALSE]

\* bool(name): a string is falsy when it has no character at all.
NameTruthy(name) == name.words > 0 \/ name.pad

\* The entries of the list the model returns: a dict whose name is a
\* string, None, a number or absent and whose role is a string or None,
\* or an entry that is no dict.
Entries ==
    [kind : {"dict"}, name_is : {"str"}, name : Names, role_is : {"str"}]
      \cup [kind : {"dict"}, name_is : {"str"},
            name : {n \in Names : n.words = 2 /\ n.wl = 4}, role_is : {"none"}]
      \cup [kind : {"dict"}, name_is : {"none", "number", "absent"},
            name : {[words |-> 0, wl |-> 0, sep |-> " ", pad |-> FALSE]},
            role_is : {"str"}]
      \cup [kind : {"other"}, name_is : {"absent"},
            name : {[words |-> 0, wl |-> 0, sep |-> " ", pad |-> FALSE]},
            role_is : {"str"}]

\* founder.get("name") is truthy
HasName(founder) ==
    \/ founder.name_is = "number"
    \/ founder.name_is = "str" /\ NameTruthy(founder.name)

\* The filter of the primary path (lines 121-124); .strip() raises
\* AttributeError on a name that is a number.
PassesFilter(founder) ==
    /\ founder.kind = "dict"
    /\ HasName(founder)
    /\ NameLen(founder.name) > 2
    /\ NameLen(founder.name) < 100

FilterRaises(founder) ==
    \/ founder.kind = "dict" /\ founder.name_is = "number"
    \/ PassesFilter(founder) /\ founder.role_is = "none"

\* The names found by the patterns: two to four words of two letters or
\* more, separated by white space.
RegexNames ==
    {n \in Names : n.words \in 2..4 /\ n.wl >= 2 /\ ~n.pad}

\* founders[:5] keeps this many of the names found; a variant keeps six.
RegexLimit_Six(found) == Min(6, found)

RegexLimit(found) == Min(5, found)

\* _extract_names_regex: the names of the set in one of its iteration
\* orders, those of valid length and at most four words, at most five.
_extract_names_regex(names) ==
    LET valid == {n \in names : NameLen(n) > 2 /\ NameLen(n) < 100 /\ n.words <= 4}
    IN {order \in [1..RegexLimit(Cardinality(valid)) -> valid] :
           \A i, j \in DOMAIN order : i # j => order[i] # order[j]}

\* _extract_founders_with_bios: the model call raises, or answers with a
\* text that is no JSON, with JSON that is no list, or with a list.
\* The answers that reach an except branch: the call raised, json.loads
\* raised, or the filter raised on an entry.  A variant lets an answer that
\* is no JSON pass as an empty list.
FallsBack_CallOnly(r) ==
    \/ r.kind = "raises"
    \/ (r.kind = "list" /\ \E i \in 1..Len(r.founders) : FilterRaises(r.founders[i]))

FallsBack(r) ==
    \/ r.kind \in {"raises", "no_json"}
    \/ (r.kind = "list" /\ \E i \in 1..Len(r.founders) : FilterRaises(r.founders[i]))

_extract_founders_with_bios(r, names) ==
    IF FallsBack(r)
    THEN {[done |-> TRUE, by |-> "regex", founders |-> f] : f \in _extract_names_regex(names)}
    ELSE IF r.kind = "no_list"
    THEN {[done |-> TRUE, by |-> "model", founders |-> <<>>]}
    ELSE LET valid_founders == SelectSeq(r.founders, PassesFilter)
             stripped == [i \in 1..Len(valid_founders) |-> StripName(valid_founders[i].name)]
         IN {[done |-> TRUE, by |-> "model",
              founders |-> FirstTen(stripped)]}

\* An answer with eleven candidates the filter keeps.
ManyEntries ==
    [i \in 1..11 |->
        [kind |-> "dict", name_is |-> "str",
         name |-> [words |-> 2 + (i % 3), wl |-> 4,
                   sep |-> IF i % 2 = 0 THEN " " ELSE "\n", pad |-> FALSE],
         role_is |-> "str"]]

\* A deck with no name, with one or with three and any answer, or a deck
\* with seven names and no answer, an answer that is no JSON, or an answer
\* with eleven candidates.
InitExtract ==
    /\ \/ /\ deck_names \in {{}, {[words |-> 2, wl |-> 4, sep |-> " ", pad |-> FALSE]},
                              {n \in RegexNames : n.words = 2}}
          /\ response \in [kind : {"raises", "no_json", "no_list"}, founders : {<<>>}]
                           \cup [kind : {"list"}, founders : SeqsUpTo(Entries, MaxCandidates)]
       \/ /\ deck_names = RegexNames
          /\ response \in [kind : {"raises", "no_json"}, founders : {<<>>}]
                           \cup {[kind |-> "list", founders |-> ManyEntries]}
    /\ extracted = NotExtracted
    /\ ParkedParsers /\ ParkedBuckets /\ ParkedUpload /\ ParkedFounders /\ ParkedLater

ExtractFoundersWithBios ==
    /\ ~extracted.done
    /\ extracted' \in _extract_founders_with_bios(response, deck_names)
    /\ UNCHANGED <<deck_names, response, parserVars, bucketVars, uploadVars, founderVars, laterVars>>

NextExtract == ExtractFoundersWithBios

SpecExtract == InitExtract /\ [][NextExtract]_vars

\* ------------------------------------------------------------------------
\* Repository analysis: GitHubAnalyzer.analyze_github_repos
\* ------------------------------------------------------------------------

MaxRepoFounders == 2

\* The repositories a deck can mention, as owner/name.
Repositories == <<"acme/one", "acme/two", "acme/three", "acme/four", "acme/five", "acme/six">>

\* A mention is the repository and whether it is written with https://.
\* The decks: the first k repositories, all written bare, or each of them
\* written once bare and once with https://.
Mentions(k, both) ==
    {[repo |-> Repositories[i], https |-> h] :
        i \in 1..k, h \in IF both THEN BOOLEAN ELSE {FALSE}}

Decks == {Mentions(k, both) : k \in 0..Len(Repositories), both \in BOOLEAN}

\* The orders in which the elements of a set can be iterated.
SetOrders(S) ==
    {order \in [1..Cardinality(S) -> S] :
        \A i, j \in DOMAIN order : i # j => order[i] # order[j]}

\* _extract_github_urls: the first pattern finds the mentions written with
\* https://, the second finds every mention and https:// is put before it;
\* list(set(urls)) keeps one of each in an iteration order of the set.
_extract_github_urls(content) ==
    LET first == {m.repo : m \in {x \in content : x.https}}
        second == {m.repo : m \in content}
    IN SetOrders(first \cup second)

\* What the repository API answers for a URL of the deck.
RepoApi(url) ==
    CASE url = "acme/two" -> [status |-> 404, stars |-> 0]
      [] url = "acme/three" -> [status |-> 0, stars |-> 0]     \* requests.get raises
      [] OTHER -> [status |-> 200, stars |-> 7]

\* _analyze_repository: a record in every case.
_analyze_repository(repo_url) ==
    LET answer == RepoApi(repo_url)
    IN IF answer.status # 200
       THEN [repo |-> repo_url, name |-> "Error", stars |-> 0, via |-> "deck"]
       ELSE [repo |-> repo_url, name |-> repo_url, stars |-> answer.stars, via |-> "deck"]

\* What the user API answers: the star counts of the repositories of the
\* user in the order of the answer, -1 for a count that is null.
UserApi(username) ==
    CASE username = "annlee" -> [status |-> 200, stars |-> <<1, 3, 2, 3>>]
      [] username = "bochen" -> [status |-> 404, stars |-> <<>>]
      [] username = "cydoe" -> [status |-> 200, stars |-> <<4, -1>>]
      [] username = "dee" -> [status |-> 200, stars |-> <<0>>]
      [] OTHER -> [status |-> 404, stars |-> <<>>]

\* sorted(repos_data, key=stars, reverse=True): the indices of the answer,
\* most stars first, equal counts in the order of the answer.
SortedByStars(stars) ==
    LET before(j, i) == stars[j] > stars[i] \/ (stars[j] = stars[i] /\ j < i)
        rank(i) == Cardinality({j \in 1..Len(stars) : before(j, i)}) + 1
    IN [k \in 1..Len(stars) |-> CHOOSE i \in 1..Len(stars) : rank(i) = k]

\* sorted_repos[:3]
FirstThree(sorted_repos) == SubSeq(sorted_repos, 1, Min(3, Len(sorted_repos)))

\* _get_user_repos: [] when the status is not 200 and when comparing a
\* null count with a number raises.
_get_user_repos(username) ==
    LET answer == UserApi(username)
    IN IF answer.status # 200 THEN <<>>
       ELSE IF Len(answer.stars) > 1 /\ \E i \in 1..Len(answer.stars) : answer.stars[i] = -1
       THEN <<>>
       ELSE LET top == FirstThree(SortedByStars(answer.stars))
            IN [k \in 1..Len(top) |->
                  [repo |-> username, name |-> top[k],
                   stars |-> answer.stars[top[k]], via |-> username]]

RECURSIVE Extend(_, _)
Extend(repos_analysis_so_far, usernames) ==
    IF usernames = <<>> THEN repos_analysis_so_far
    ELSE Extend(repos_analysis_so_far \o _get_user_repos(Head(usernames)), Tail(usernames))

\* repos_analysis[:5]
FirstFive_All(repos) == repos

FirstFive(repos) == SubSeq(repos, 1, Min(5, Len(repos)))

\* analyze_github_repos with the URLs in the order github_urls.
analyze_github_repos(github_urls, founders) ==
    LET githubs == [i \in 1..Len(founders) |-> founders[i].github]
        founder_usernames == SelectSeq(githubs, LAMBDA g : g # "")
        from_deck == [i \in 1..Len(github_urls) |-> _analyze_repository(github_urls[i])]
    IN FirstFive(Extend(from_deck, founder_usernames))

Githubs == {"", "annlee", "bochen", "cydoe", "dee"}

InitRepos ==
    /\ deck_urls \in Decks
    /\ repo_founders \in SeqsUpTo([github : Githubs], MaxRepoFounders)
    /\ repos_analysis = NoRepos
    /\ ParkedParsers /\ ParkedBuckets /\ ParkedUpload /\ ParkedFounders
    /\ ParkedExtract /\ ParkedRepeat /\ ParkedCascade /\ ParkedWait /\ ParkedLast

AnalyzeGithubRepos ==
    /\ ~repos_analysis.done
    /\ \E github_urls \in _extract_github_urls(deck_urls) :
          repos_analysis' =
              [done |-> TRUE, repos |-> analyze_github_repos(github_urls, repo_founders)]
    /\ UNCHANGED <<deck_urls, repo_founders, parserVars, bucketVars, uploadVars,
                   founderVars, extractVars, repeatVars, cascadeVars, waitVars, lastVars>>

NextRepos == AnalyzeGithubRepos

SpecRepos == InitRepos /\ [][NextRepos]_vars

\* ------------------------------------------------------------------------
\* Repeated uploads of one document
\* ------------------------------------------------------------------------

MaxSeed == 3
MaxRuns == 2

\* Names and URLs are strings; a set of strings is iterated in the order of
\* the slots its elements hash to, and the hash of a string depends on the
\* seed the process drew when it started.  StrKey numbers the strings of
\* the model and HashSlot spreads them over the slots differently for
\* every seed.
HashSlots == 17

NameKey(name) ==
    IF name.wl = 50 THEN 7
    ELSE 2 * name.words - 3 + (IF name.sep = "\n" THEN 1 ELSE 0)

UrlKey(url) == 7 + (CHOOSE i \in 1..Len(Repositories) : Repositories[i] = url)

HashSlot(key, seed) == (key * seed) % HashSlots

\* The strings with these keys are listed as a process with this seed
\* iterates them.
InHashOrder(keys, seed) ==
    \A i, j \in DOMAIN keys : i < j => HashSlot(keys[i], seed) < HashSlot(keys[j], seed)

\* The founders of a run: those of the model's answer, or those of the
\* regex fallback in the iteration order of this process, cut where the
\* loop over the set stops.
FoundersOfRun(seed) ==
    LET outcomes == _extract_founders_with_bios(response, deck_names)
        valid == {n \in deck_names : NameLen(n) > 2 /\ NameLen(n) < 100 /\ n.words <= 4}
        slot(n) == HashSlot(NameKey(n), seed)
        mine == {o \in outcomes :
                    /\ InHashOrder([i \in 1..Len(o.founders) |-> NameKey(o.founders[i])], seed)
                    /\ \A n \in valid : \A i \in 1..Len(o.founders) :
                          slot(n) < slot(o.founders[i]) =>
                             \E k \in 1..Len(o.founders) : o.founders[k] = n}
    IN IF Cardinality(outcomes) = 1 THEN CHOOSE o \in outcomes : TRUE
       ELSE CHOOSE o \in mine : TRUE

\* The report of a run, without its timing fields: the founders (the
\* stubbed searches find no account for them) and the github analysis.
ReportOfRun(seed) ==
    LET founders == FoundersOfRun(seed).founders
        github_urls == CHOOSE order \in _extract_github_urls(deck_urls) :
                           InHashOrder([i \in 1..Len(order) |-> UrlKey(order[i])], seed)
    IN [founders |-> founders,
        github_analysis |->
            analyze_github_repos(github_urls, [i \in 1..Len(founders) |-> [github |-> ""]])]

InitRepeat ==
    /\ hashseed \in 1..MaxSeed
    /\ reports = <<>>
    /\ deck_names \in {{}, {n \in RegexNames : n.words = 2}, RegexNames}
    /\ deck_urls \in Decks
    /\ response \in {[kind |-> "raises", founders |-> <<>>],
                      [kind |-> "list",
                       founders |-> <<[kind |-> "dict", name_is |-> "str",
                                       name |-> [words |-> 2, wl |-> 4, sep |-> " ", pad |-> FALSE],
                                       role_is |-> "str"]>>]}
    /\ extracted = NotExtracted
    /\ repo_founders = <<>> /\ repos_analysis = NoRepos
    /\ ParkedParsers /\ ParkedBuckets /\ ParkedUpload /\ ParkedFounders
    /\ ParkedCascade /\ ParkedWait /\ ParkedLast

\* The server process is started again and draws a seed.
Restart ==
    /\ Len(reports) < MaxRuns
    /\ hashseed' \in 1..MaxSeed
    /\ UNCHANGED <<reports, parserVars, bucketVars, uploadVars, founderVars,
                   extractVars, repoVars, cascadeVars, waitVars, lastVars>>

\* The document is uploaded and analyze_project_upload answers.
Upload ==
    /\ Len(reports) < MaxRuns
    /\ reports' = Append(reports, ReportOfRun(hashseed))
    /\ UNCHANGED <<hashseed, parserVars, bucketVars, uploadVars, founderVars,
                   extractVars, repoVars, cascadeVars, waitVars, lastVars>>

NextRepeat == Restart \/ Upload

SpecRepeat == InitRepeat /\ [][NextRepeat]_vars

\* ------------------------------------------------------------------------
\* The stages of the upload pipeline and what they read of earlier results
\* ------------------------------------------------------------------------

\* d.get(key, default) works on a dict (AttributeError otherwise).
Readable(d) == d.t = "obj"

\* len(v) works on a list, a dict and a string (TypeError otherwise).
Sized(v) == v.t \in {"list", "obj", "str"}

\* founders[:3] and founder.get(...) on each element, f.get("github") for f
\* in founders: a list of dicts.
Listable(founders) ==
    founders.t = "list" /\ \A i \in 1..Len(founders.items) : Readable(founders.items[i])

\* Responses the model gives when its call succeeds and its answer parses.
GoodViabilityText == <<"{", "S", "n", "}">>
GoodAnalysisText == <<"{", "K", "[", "s", "]", "}">>
GoodQuestionsText == <<"[", "{", "Q", "s", "}", "]">>
GoodProjectText == <<"{", "P", "s", "}">>

\* Lines 163-171 of the handler: the attributes of the ProjectSummary.
ProfileInfo(project_summary) ==
    JDict(ProjectInfoKeys \o <<"team_info">>, project_summary.items \o <<JList(<<>>)>>)

\* The except branch of assess_viability.
ViabilityDefault ==
    JDict(<<"score", "explanation", "risk_factors", "strengths">>,
          <<JNum(5), JStr(<<"Error in evaluation: ">>),
            JList(<<JStr(<<"Technical error">>)>>), JList(<<>>)>>)

assess_viability(project_info, callResult, t) ==
    IF ~Readable(project_info) \/ callResult = "raises" THEN ViabilityDefault
    ELSE _parse_viability_assessment(t).val

\* A variant of the except branch of extract_and_search_founders that
\* returns the message in place of a record.
FoundersFailure_Message == JList(<<JStr(<<"Error in search">>)>>)

\* The except branch of extract_and_search_founders.
FoundersFailure ==
    JList(<<JDict(<<"name", "linkedin", "github", "bio", "score", "contribution">>,
                  <<JStr(<<"Error in search">>), JStr(<<>>), JStr(<<>>),
                    JStr(<<"Error: ">>), JNum(0),
                    JStr(<<"Error occurred during search">>)>>)>>)

\* The record of a founder whose search failed and of one it found.
FounderKeys == <<"name", "role", "github", "score", "contribution">>

DegradedFounder ==
    JDict(FounderKeys, <<JStr(<<"Ann Lee">>), JStr(<<>>), JStr(<<>>), JNum(0),
                         JStr(<<"Error occurred during search">>)>>)

FoundFounder ==
    JDict(FounderKeys, <<JStr(<<"Ann Lee">>), JStr(<<"CEO">>), JStr(<<"annlee">>), JNum(8),
                         JStr(<<"Leads the company">>)>>)

\* extract_and_search_founders: the records of the founders, or the record
\* of its except branch.
extract_and_search_founders(outcome) ==
    CASE outcome = "raises" -> FoundersFailure
      [] outcome = "degraded" -> JList(<<DegradedFounder>>)
      [] outcome = "none" -> JList(<<>>)
      [] OTHER -> JList(<<FoundFounder>>)

\* The except branch of analyze_github_repos.
ReposFailure ==
    JList(<<JDict(<<"repo", "activity", "main_lang", "description">>,
                  <<JStr(<<"Error en analisis">>), JStr(<<"Error">>), JStr(<<"N/A">>),
                    JStr(<<"Error: ">>)>>)>>)

\* analyze_github_repos of a deck without URLs: the repositories of the
\* founders with an account.
ReposOfFounders(founders) ==
    IF ~Listable(founders) THEN ReposFailure
    ELSE LET githubs == [i \in 1..Len(founders.items) |->
                            [github |-> IF Truthy(Get(founders.items[i], "github", JStr(<<>>)))
                                        THEN Get(founders.items[i], "github", JStr(<<>>)).s[1]
                                        ELSE ""]]
             repos == analyze_github_repos(<<>>, githubs)
         IN JList([i \in 1..Len(repos) |->
                      JDict(<<"repo", "stars">>, <<JStr(<<repos[i].repo>>), JNum(repos[i].stars)>>)])

\* generate_simple_summary: the text, or the text of its except branch.
SummaryFailure == JStr(<<"Error generating summary: ">>)

generate_simple_summary(project_info, viability_score, callResult) ==
    IF ~Readable(project_info) \/ ~Sized(Get(project_info, "team_info", JList(<<>>)))
       \/ callResult = "raises"
    THEN SummaryFailure
    ELSE JStr(<<"summary">>)

\* The except branch of _analyze_competitive_landscape and that of
\* analyze_competitors.
LandscapeFailure ==
    JDict(CompetitiveKeys,
          <<JStr(<<"unknown">>), JStr(<<"Error: ">>), JStr(<<"unknown">>),
            JList(<<>>), JList(<<>>), JList(<<>>)>>)

CompetitorKeys ==
    <<"competitors", "competitive_analysis", "market_saturation",
      "competitive_advantage", "threat_level">>

CompetitorFailure ==
    JDict(CompetitorKeys,
          <<JList(<<>>), JDict(<<"error">>, <<JStr(<<"error">>)>>), JStr(<<"unknown">>),
            JStr(<<"Analysis failed">>), JStr(<<"unknown">>)>>)

\* Words of a description: "the" is one of the words the phrase filter
\* refuses wherever it occurs in a phrase; the lengths are those of the
\* words.
WordLen(word) ==
    CASE word = "the" -> 3
      [] word = "go" -> 2
      [] OTHER -> 4

HasStopWord(word) == word = "the"

\* The phrases of two neighbouring words from position i on that are longer
\* than 5 characters and hold none of the refused words.
RECURSIVE PhrasesFrom(_, _)
PhrasesFrom(words, i) ==
    IF i >= Len(words) THEN <<>>
    ELSE LET rest == PhrasesFrom(words, i + 1)
         IN IF /\ WordLen(words[i]) + 1 + WordLen(words[i + 1]) > 5
               /\ ~HasStopWord(words[i]) /\ ~HasStopWord(words[i + 1])
            THEN <<<<words[i], words[i + 1]>>>> \o rest
            ELSE rest

\* _extract_key_phrases: text.lower().split() of a string (the words
\* of the model are lower case); at most five phrases.
_extract_key_phrases(description) == FirstFive(PhrasesFrom(description.s, 1))

\* What an f-string shows of a value.
Shown(v) == IF v.t = "str" THEN v.s ELSE <<"5">>

\* _generate_search_terms: two terms of the name, one of each of the first
\* three phrases of the description, two of the target market, each part
\* only when its field is truthy.  A truthy description that is no string
\* raises (AttributeError on .lower()).
_generate_search_terms(project_info) ==
    LET project_name == Get(project_info, "project_name", JStr(<<>>))
        description == Get(project_info, "description", JStr(<<>>))
        target_market == Get(project_info, "target_market", JStr(<<>>))
        key_phrases == FirstThree(_extract_key_phrases(description))
    IN IF Truthy(description) /\ description.t # "str" THEN Raise
       ELSE Ret(JList(
                (IF Truthy(project_name)
                 THEN << Shown(project_name) \o <<"competitors">>,
                         Shown(project_name) \o <<"alternatives">> >>
                 ELSE <<>>)
                \o (IF Truthy(description)
                    THEN [i \in 1..Len(key_phrases) |-> key_phrases[i] \o <<"companies">>]
                    ELSE <<>>)
                \o (IF Truthy(target_market)
                    THEN << Shown(target_market) \o <<"solutions">>,
                            Shown(target_market) \o <<"platforms">> >>
                    ELSE <<>>)))

\* search_terms[:3]; a variant searches every term.
TopTerms_All(search_terms) == search_terms

TopTerms(search_terms) == SubSeq(search_terms, 1, Min(3, Len(search_terms)))

\* _search_competitors: the two mock competitors of a term.
_search_competitors(search_term) ==
    << JDict(<<"name">>, <<JStr(<<"Competitor", "A", "-">> \o search_term)>>),
       JDict(<<"name">>, <<JStr(<<"Competitor", "B", "-">> \o search_term)>>) >>

\* The competitors of the terms, in the order of the terms.
RECURSIVE SearchAll(_)
SearchAll(terms) ==
    IF terms = <<>> THEN <<>>
    ELSE _search_competitors(Head(terms)) \o SearchAll(Tail(terms))

\* _deduplicate_competitors: the first competitor of each name (the names of
\* the model are lower case and trimmed) that is not empty.
_deduplicate_competitors(competitors) ==
    LET name_key(i) == Get(competitors[i], "name", JStr(<<>>)).s
        kept == {i \in 1..Len(competitors) :
                    /\ name_key(i) # <<>>
                    /\ \A j \in 1..(i - 1) : name_key(j) # name_key(i)}
        nth(k) == CHOOSE i \in kept : Cardinality({j \in kept : j <= i}) = k
    IN [k \in 1..Cardinality(kept) |-> competitors[nth(k)]]

\* The top-level market_saturation; a variant takes that of the model.
TopLevelSaturation_OfModel(competitive_analysis, unique_competitors) ==
    Get(competitive_analysis, "market_saturation", JStr(<<"medium">>))

TopLevelSaturation(competitive_analysis, unique_competitors) ==
    JStr(<<_calculate_market_saturation(Len(unique_competitors))>>)

analyze_competitors(project_info, callResult, t) ==
    IF ~Readable(project_info) \/ _generate_search_terms(project_info).raised
    THEN CompetitorFailure
    ELSE LET search_terms == _generate_search_terms(project_info).val.items
             unique_competitors ==
                 _deduplicate_competitors(SearchAll(TopTerms(search_terms)))
             competitive_analysis ==
                 IF callResult = "raises" THEN LandscapeFailure
                 ELSE _parse_competitive_analysis_json(
                          IF t = <<>> THEN <<"{", "}">> ELSE t).val
         IN JDict(CompetitorKeys,
                  <<JList(unique_competitors), competitive_analysis,
                    TopLevelSaturation(competitive_analysis, unique_competitors),
                    Get(competitive_analysis, "competitive_advantage", JStr(<<>>)),
                    Get(competitive_analysis, "threat_level", JStr(<<"medium">>))>>)

\* The except branch of analyze_compliance_risks.
ComplianceFailure ==
    JDict(<<"compliance_risks", "regulatory_requirements", "legal_risks",
            "data_privacy_concerns", "compliance_score", "risk_level",
            "recommendations", "required_licenses", "jurisdictions">>,
          <<JList(<<JStr(<<"Error in analysis: ">>)>>), JList(<<>>), JList(<<>>), JList(<<>>),
            JNum(5), JStr(<<"unknown">>),
            JList(<<JStr(<<"Consult with legal experts">>)>>), JList(<<>>), JList(<<>>)>>)

analyze_compliance_risks(project_info, founders, callResult, t) ==
    IF ~Readable(project_info) \/ ~Sized(founders)
       \/ (Truthy(founders) /\ ~Listable(founders)) \/ callResult = "raises"
    THEN ComplianceFailure
    ELSE _parse_compliance_analysis(t).val

\* generate_followup_questions with the prompt built from the earlier
\* results.
FollowupStage(project_info, founders, viability_assessment, competitor_analysis, callResult, t) ==
    IF ~Readable(project_info) \/ ~Sized(founders)
       \/ (Truthy(founders) /\ ~Listable(founders))
       \/ ~Readable(viability_assessment) \/ ~Readable(competitor_analysis)
    THEN FollowupError
    ELSE generate_followup_questions(callResult, t).val

\* The handler keeps the result of the stage and reads it for its log
\* line; a read that raises lands in the except branch of the handler.
KeepResult(p, callResult, value, readable) ==
    [p EXCEPT !.at = p.at + 1,
              !.calls = Append(p.calls, callResult),
              !.values = Append(p.values, value),
              !.error = ~readable]

InitCascade ==
    /\ pipeline = [at |-> 0, calls |-> <<>>, values |-> <<>>, error |-> FALSE]
    /\ ParkedParsers /\ ParkedBuckets /\ ParkedUpload /\ ParkedFounders /\ ParkedExtract
    /\ ParkedRepos /\ ParkedRepeat /\ ParkedWait /\ ParkedLast

OtherThanCascade ==
    <<parserVars, bucketVars, uploadVars, founderVars, extractVars, repoVars,
      repeatVars, waitVars, lastVars>>

Step1ProjectAnalysis ==
    /\ pipeline.at = 0 /\ ~pipeline.error
    /\ \E callResult \in {"ok", "raises"}, lax \in BOOLEAN :
          pipeline' = KeepResult(pipeline, callResult,
                           analyze_project_content(callResult, GoodProjectText, lax).val, TRUE)
    /\ UNCHANGED OtherThanCascade

Step2ViabilityAssessment ==
    /\ pipeline.at = 1 /\ ~pipeline.error
    /\ \E callResult \in {"ok", "raises"} :
          LET viability_assessment ==
                  assess_viability(ProfileInfo(pipeline.values[1]), callResult, GoodViabilityText)
          IN pipeline' = KeepResult(pipeline, callResult, viability_assessment,
                              Readable(viability_assessment))
    /\ UNCHANGED OtherThanCascade

Step3FounderSearch ==
    /\ pipeline.at = 2 /\ ~pipeline.error
    /\ \E outcome \in {"ok", "none", "degraded", "raises"} :
          LET founders == extract_and_search_founders(outcome)
          IN pipeline' = KeepResult(pipeline, outcome, founders, Sized(founders))
    /\ UNCHANGED OtherThanCascade

Step4GithubAnalysis ==
    /\ pipeline.at = 3 /\ ~pipeline.error
    /\ LET github_repos == ReposOfFounders(pipeline.values[3])
       IN pipeline' = KeepResult(pipeline, "ok", github_repos, Sized(github_repos))
    /\ UNCHANGED OtherThanCascade

Step5Summary ==
    /\ pipeline.at = 4 /\ ~pipeline.error
    /\ \E callResult \in {"ok", "raises"} :
          IF ~Readable(pipeline.values[2])
          THEN pipeline' = [pipeline EXCEPT !.error = TRUE]
          ELSE pipeline' =
                  KeepResult(pipeline, callResult,
                       generate_simple_summary(ProfileInfo(pipeline.values[1]),
                                               Get(pipeline.values[2], "score", JNum(5)),
                                               callResult),
                       TRUE)
    /\ UNCHANGED OtherThanCascade

Step6CompetitorAnalysis ==
    /\ pipeline.at = 5 /\ ~pipeline.error
    /\ \E callResult \in {"ok", "raises"} :
          LET competitor_analysis ==
                  analyze_competitors(ProfileInfo(pipeline.values[1]), callResult, GoodAnalysisText)
          IN pipeline' = KeepResult(pipeline, callResult, competitor_analysis,
                              /\ Readable(competitor_analysis)
                              /\ Sized(Get(competitor_analysis, "competitors", JList(<<>>))))
    /\ UNCHANGED OtherThanCascade

Step7ComplianceAnalysis ==
    /\ pipeline.at = 6 /\ ~pipeline.error
    /\ \E callResult \in {"ok", "raises"} :
          LET compliance_analysis ==
                  analyze_compliance_risks(ProfileInfo(pipeline.values[1]), pipeline.values[3],
                                           callResult, GoodAnalysisText)
          IN pipeline' = KeepResult(pipeline, callResult, compliance_analysis,
                              Readable(compliance_analysis))
    /\ UNCHANGED OtherThanCascade

Step8FollowupQuestions ==
    /\ pipeline.at = 7 /\ ~pipeline.error
    /\ \E callResult \in {"ok", "raises"} :
          LET followup_questions ==
                  FollowupStage(ProfileInfo(pipeline.values[1]), pipeline.values[3],
                                pipeline.values[2], pipeline.values[6],
                                callResult, GoodQuestionsText)
          IN pipeline' = KeepResult(pipeline, callResult, followup_questions,
                              Readable(followup_questions))
    /\ UNCHANGED OtherThanCascade

NextCascade ==
    \/ Step1ProjectAnalysis \/ Step2ViabilityAssessment \/ Step3FounderSearch
    \/ Step4GithubAnalysis \/ Step5Summary \/ Step6CompetitorAnalysis
    \/ Step7ComplianceAnalysis \/ Step8FollowupQuestions

SpecCascade == InitCascade /\ [][NextCascade]_vars

\* ------------------------------------------------------------------------
\* GitRollService.wait_for_scan_completion with any max_wait_time
\* ------------------------------------------------------------------------

\* What check_scan_status returns: the status dict of a page with a score,
\* of a page without one, or the failure dict (it has no status key) of a
\* page that was not served or of a request that raised.
StatusResults ==
    { [success |-> TRUE, status |-> "completed", message |-> "", score |-> JNum(7)],
      [success |-> TRUE, status |-> "processing", message |-> "", score |-> JNone],
      [success |-> FALSE, status |-> "absent",
       message |-> "Failed to check scan status: ", score |-> JNone],
      [success |-> FALSE, status |-> "absent",
       message |-> "Error checking scan status: ", score |-> JNone] }

\* The dict returned after the loop.
ScanTimeout ==
    [success |-> FALSE, status |-> "absent",
     message |-> "Scan timeout - scan may still be processing", score |-> JNone]

\* A variant of the loop condition that still checks when the time is up.
KeepWaiting_Inclusive(waited, limit) == waited <= limit

\* while time.time() - start_time < max_wait_time
KeepWaiting(waited, limit) == waited < limit

\* The values of max_wait_time: none, one second, one sleep, the default.
WaitTimes == {0, 1, sleep_seconds, max_wait_time}

InitWait ==
    /\ wait \in {[NoWait EXCEPT !.max_wait_time = m, !.at = "while"] : m \in WaitTimes}
    /\ text = <<>> /\ out = NoOut
    /\ ParkedBuckets /\ ParkedUpload /\ ParkedFounders /\ ParkedExtract
    /\ ParkedRepos /\ ParkedRepeat /\ ParkedCascade /\ ParkedLast

OtherThanWait ==
    <<parserVars, bucketVars, uploadVars, founderVars, extractVars, repoVars,
      repeatVars, cascadeVars, lastVars>>

\* One round of the loop: the condition holds at the time read, the check
\* takes some seconds and returns; a completed status is returned at once,
\* any other is followed by the sleep.
WaitCheckScanStatus ==
    /\ wait.at = "while"
    /\ KeepWaiting(wait.elapsed, wait.max_wait_time)
    /\ \E took \in {0, MaxCheckSeconds}, status \in StatusResults :
          wait' = IF status.status = "completed"
                  THEN [wait EXCEPT !.checks = @ + 1, !.started = wait.elapsed,
                                    !.last = status, !.elapsed = @ + took,
                                    !.at = "returned", !.result = status]
                  ELSE [wait EXCEPT !.checks = @ + 1, !.started = wait.elapsed,
                                    !.last = status,
                                    !.elapsed = @ + took + sleep_seconds]
    /\ UNCHANGED OtherThanWait

\* The condition fails at the time read: the timeout dict is returned.
WaitScanTimeout ==
    /\ wait.at = "while"
    /\ ~KeepWaiting(wait.elapsed, wait.max_wait_time)
    /\ wait' = [wait EXCEPT !.at = "returned", !.result = ScanTimeout]
    /\ UNCHANGED OtherThanWait

NextWait == WaitCheckScanStatus \/ WaitScanTimeout

SpecWait == InitWait /\ [][NextWait]_vars

\* Each status check returns and the loop runs on.
SpecWaitFair == SpecWait /\ WF_vars(NextWait)

\* ------------------------------------------------------------------------
\* One worker's event loop running upload requests
\* ------------------------------------------------------------------------

MaxFailures == 2

Requests == {1, 2}

\* The external calls of one upload with one founder, in the order the
\* handler reaches them: the read of the uploaded file, then the calls of
\* the eight stages.
Program ==
    << "read",
       "completion",
       "completion",
       "completion", "web lookup", "api", "scan", "poll", "sleep", "completion",
       "api",
       "completion",
       "completion",
       "completion",
       "completion" >>

\* Whether the coroutine gives the thread back while the call is under
\* way: file.read() is awaited; the completions (the synchronous client),
\* the requests calls and time.sleep are plain calls inside the coroutine.
Suspends(kind) == kind = "read"

NoRequest == [at |-> 0, in_call |-> FALSE, failures |-> 0]

InitLoop ==
    /\ loop = [holder |-> 0, req |-> [r \in Requests |-> NoRequest]]
    /\ text = <<>> /\ out = NoOut
    /\ ParkedBuckets /\ ParkedUpload /\ ParkedFounders /\ ParkedExtract
    /\ ParkedRepos /\ ParkedRepeat /\ ParkedCascade /\ ParkedWait
    /\ ParkedMarket /\ ParkedProject

OtherThanLoop ==
    <<parserVars, bucketVars, uploadVars, founderVars, extractVars, repoVars,
      repeatVars, cascadeVars, waitVars, marketVars, projectVars>>

\* Whether the request has calls left to make.
Pending(r) == loop.req[r].at \in 1..Len(Program)

\* The request arrives at the worker and its task is scheduled.
Submit(r) ==
    /\ loop.req[r].at = 0
    /\ loop' = [loop EXCEPT !.req[r].at = 1]
    /\ UNCHANGED OtherThanLoop

\* The request's coroutine, running on the thread (or picked by the idle
\* loop), reaches its next call; the thread is given back only when the
\* call suspends.
BeginCall(r) ==
    /\ Pending(r) /\ ~loop.req[r].in_call
    /\ loop.holder \in {0, r}
    /\ loop' = [loop EXCEPT !.req[r].in_call = TRUE,
                            !.holder = IF Suspends(Program[loop.req[r].at]) THEN 0 ELSE r]
    /\ UNCHANGED OtherThanLoop

\* The call returns or raises (the stage catches it) and the coroutine runs
\* on to its next call; after the last call the response is sent and the
\* thread is given back.  A suspended coroutine resumes on the idle loop.
ReturnCall(r) ==
    /\ Pending(r) /\ loop.req[r].in_call
    /\ loop.holder = IF Suspends(Program[loop.req[r].at]) THEN 0 ELSE r
    /\ \E raised \in BOOLEAN :
          /\ raised => loop.req[r].failures < MaxFailures
          /\ loop' = [loop EXCEPT
                         !.req[r].in_call = FALSE,
                         !.req[r].at = @ + 1,
                         !.req[r].failures = IF raised THEN @ + 1 ELSE @,
                         !.holder = IF loop.req[r].at = Len(Program) THEN 0 ELSE r]
    /\ UNCHANGED OtherThanLoop

NextLoop == \E r \in Requests : Submit(r) \/ BeginCall(r) \/ ReturnCall(r)

SpecLoop == InitLoop /\ [][NextLoop]_vars

\* ------------------------------------------------------------------------
\* CompetitorAgent.analyze_competitors on any project info
\* ------------------------------------------------------------------------

MaxDescription == 4

\* The project infos: no dict at all, or a dict whose name is empty or
\* not, whose description is a text of up to MaxDescription words or a
\* number, and whose target market is empty or not.
ProjectInfos ==
    {JNone} \cup
    { JDict(<<"project_name", "description", "target_market">>,
            <<project_name, description, target_market>>) :
        project_name \in {JStr(<<>>), JStr(<<"acme">>)},
        description \in {JNum(5)} \cup
                        {JStr(d) : d \in SeqsUpTo({"pets", "dogs", "the", "go"}, MaxDescription)},
        target_market \in {JStr(<<>>), JStr(<<"vets">>)} }

\* Answers of the model: a saturation of its own, none, and no JSON.
LandscapeTexts == {<<"{", "M", "s", "}">>, GoodAnalysisText, <<"w">>, <<>>}

InitMarket ==
    /\ market \in {[done |-> FALSE, project_info |-> p, result |-> JNone] : p \in ProjectInfos}
    /\ text = <<>> /\ out = NoOut
    /\ ParkedBuckets /\ ParkedUpload /\ ParkedFounders /\ ParkedExtract
    /\ ParkedRepos /\ ParkedRepeat /\ ParkedCascade /\ ParkedWait
    /\ ParkedLoop /\ ParkedProject

\* The model call of the landscape analysis answers with a text or raises.
AnalyzeCompetitors ==
    /\ ~market.done
    /\ \E callResult \in {"ok", "raises"}, t \in LandscapeTexts :
          market' = [market EXCEPT
                        !.done = TRUE,
                        !.result = analyze_competitors(market.project_info, callResult, t)]
    /\ UNCHANGED <<parserVars, bucketVars, uploadVars, founderVars, extractVars, repoVars,
                   repeatVars, cascadeVars, waitVars, loopVars, projectVars>>

NextMarket == AnalyzeCompetitors

SpecMarket == InitMarket /\ [][NextMarket]_vars

\* ------------------------------------------------------------------------
\* POST /analysis/project
\* ------------------------------------------------------------------------

\* A deck_file is an optional data-URL prefix (with or without its comma)
\* and a payload: nothing, the base64 of the text deck, a payload whose
\* padding is wrong, the base64 of a byte that is no UTF-8, or a blank.
DeckFiles ==
    [prefix : {"", "data:x,", "data:x"}, payload : {"", "ZGVjaw==", "a", "/w==", " "}]

\* not request.deck_file
IsEmpty(deck_file) == deck_file.prefix = "" /\ deck_file.payload = ""

\* split(',')[1] of a data URL without a comma, b64decode of a payload with
\* wrong padding and decode('utf-8') of a byte 0xff raise; the except
\* branch turns each into ValueError.
_decode_deck_file(deck_file) ==
    IF deck_file.prefix = "data:x" THEN [raised |-> TRUE, val |-> ""]
    ELSE IF deck_file.payload \in {"a", "/w=="} THEN [raised |-> TRUE, val |-> ""]
    ELSE [raised |-> FALSE,
          val |-> IF deck_file.payload = "ZGVjaw==" THEN "deck" ELSE ""]

\* SimpleAnalysisService.analyze_project: everything, the decoding included,
\* runs inside try/except Exception, whose except branch returns the
\* Analysis Failed summary.  model_calls counts the calls of the client.
analysis_service_analyze_project(deck_file, callResult, t, lax) ==
    IF _decode_deck_file(deck_file).raised
    THEN [data |-> AnalysisFailed, model_calls |-> 0]
    ELSE [data |-> analyze_project_content(callResult, t, lax).val, model_calls |-> 1]

\* str(e) of the HTTPException: the framework's __str__ where it has one,
\* else the args the exception was built with, or nothing.
ExceptionTexts ==
    {"400: Deck file is required", "(400, 'Deck file is required')", ""}

NoAnswer ==
    [status |-> 0, detail |-> <<>>, success |-> FALSE, data |-> JNone,
     started |-> FALSE, model_calls |-> 0]

\* The except clauses of the handler, applied to an HTTPException raised in
\* its try block: it is no ValueError, so except Exception takes it and
\* raises HTTPException(500, "Analysis failed: " + str(e)).
ExceptClauses(status_code, detail, shown) ==
    [NoAnswer EXCEPT !.status = 500, !.detail = <<"Analysis failed: ", shown>>]

\* The handler of POST /analysis/project.
analyze_project(request, callResult, t, lax, shown) ==
    IF IsEmpty(request.deck_file)
    THEN ExceptClauses(400, "Deck file is required", shown)
    ELSE LET project_summary ==
                 analysis_service_analyze_project(request.deck_file, callResult, t, lax)
         IN [status |-> 200, detail |-> <<>>, success |-> TRUE,
             data |-> project_summary.data, started |-> TRUE,
             model_calls |-> project_summary.model_calls]

SummaryTexts ==
    {<<"{", "P", "s", "}">>, <<"{", "P", "n", "}">>, <<"{", "P", "[", "s", "]", "}">>,
     <<"w">>, <<"{">>, <<>>}

InitProject ==
    /\ project \in {[at |-> "request",
                     request |-> [deck_file |-> d, project_name |-> p],
                     callResult |-> c, analysis_text |-> t, lax |-> l, shown |-> e,
                     answer |-> NoAnswer] :
                        d \in DeckFiles, p \in {"", "TestStartup"},
                        c \in {"ok", "raises"}, t \in SummaryTexts, l \in BOOLEAN,
                        e \in ExceptionTexts}
    /\ text = <<>> /\ out = NoOut
    /\ ParkedBuckets /\ ParkedUpload /\ ParkedFounders /\ ParkedExtract
    /\ ParkedRepos /\ ParkedRepeat /\ ParkedCascade /\ ParkedWait
    /\ ParkedLoop /\ ParkedMarket

\* One request: the handler runs to its response.
AnalyzeProject ==
    /\ project.at = "request"
    /\ project' = [project EXCEPT
                      !.at = "answered",
                      !.answer = analyze_project(project.request, project.callResult,
                                                 project.analysis_text, project.lax,
                                                 project.shown)]
    /\ UNCHANGED <<parserVars, bucketVars, uploadVars, founderVars, extractVars, repoVars,
                   repeatVars, cascadeVars, waitVars, loopVars, marketVars>>

NextProject == AnalyzeProject

SpecProject == InitProject /\ [][NextProject]_vars

\* ------------------------------------------------------------------------
\* Properties
\* ------------------------------------------------------------------------

\* v is a dict that has every key of keys and holds a list under every key
\* of listKeys.
FullShape(v, keys, listKeys) ==
    /\ v.t = "obj"
    /\ \A k \in keys : HasKey(v, k)
    /\ \A k \in listKeys : Get(v, k, JNone).t = "list"

Range(f) == {f[i] : i \in DOMAIN f}

\* C1: for every response text the competitor, compliance and follow-up
\* parsers return without raising; the competitor result has its 6 keys
\* and the compliance result its 9 keys with a list under every list
\* field, and the follow-up result is a list of records that each have
\* question, category, priority and rationale, whichever rung produced it.
C1_ParsersReturnFullShape ==
    /\ out.op = "competitive" =>
          /\ ~out.raised
          /\ FullShape(out.val, Range(CompetitiveKeys), CompetitiveListKeys)
          /\ Len(out.val.keys) = 6
    /\ out.op = "compliance" =>
          /\ ~out.raised
          /\ FullShape(out.val, Range(ComplianceKeys), ComplianceListKeys)
          /\ Len(out.val.keys) = 9
    /\ out.op = "questions" =>
          /\ ~out.raised
          /\ out.val.t = "list"
          /\ \A i \in 1..Len(out.val.items) :
                FullShape(out.val.items[i], Range(QuestionKeys), {})

\* The competitor parser met a parseable object whose recommendations
\* field is a string and returned the empty list in its place.
C1_Witness ==
    /\ out.op = "competitive" /\ out.rung = 1
    /\ loads(text).ok
    /\ Get(loads(text).val, "recommendations", JNone).t = "str"
    /\ Get(out.val, "recommendations", JNone) = JList(<<>>)

\* C2: for every response text the record the viability parser returns
\* has the keys score, explanation, risk_factors and strengths, also when
\* the response holds a parseable JSON object that omits some of them.
C2_ViabilityHasRequiredKeys ==
    out.op = "viability" =>
        \A k \in {"score", "explanation", "risk_factors", "strengths"} :
            HasKey(out.val, k)

\* The file types the upload accepts.
SupportedTypes == {"pdf", "pptx", "docx", "txt", "md"}

\* C3: when the uploaded file has a supported type and non-blank extracted
\* text, the pipeline calls its eight stage functions once each in the
\* order project analysis, viability, founder search, repository analysis,
\* summary, competitor analysis, compliance analysis, follow-up questions,
\* each after the previous one returned, and ends with status success and
\* analysis_completed true, whichever calls of the stages fail.
C3_EightStagesThenSuccess ==
    (Ext(file.filename) \in SupportedTypes /\ file.holds = "text" /\ pc # "parked") =>
        /\ \E n \in 0..8 :
              log = SubSeq(<<"analyze_project_content", "assess_viability",
                             "extract_and_search_founders", "analyze_github_repos",
                             "generate_simple_summary", "analyze_competitors",
                             "analyze_compliance_risks",
                             "generate_followup_questions">>, 1, n)
        /\ Len(results) = Len(log)
        /\ pc = "done" =>
              /\ Len(log) = 8
              /\ report.status = "success" /\ report.analysis_completed

\* A PDF whose eight stages all fell back to their defaults was answered
\* with a success report.
C3_Witness ==
    /\ file = [filename |-> "DECK.PDF", holds |-> "text"]
    /\ pc = "done" /\ report.status = "success"
    /\ results = [k \in 1..8 |-> "default"]

\* C4: an unsupported file type, or extracted text that is empty or white
\* space, is answered with status error and analysis_completed false
\* without any stage function being called; status error is never the
\* answer when the text was extracted and every stage function called has
\* returned.
C4_ErrorOnlyForInput ==
    /\ (pc = "done" /\ (Ext(file.filename) \notin SupportedTypes
                          \/ file.holds \in {"empty", "blank"})) =>
          /\ report.status = "error" /\ ~report.analysis_completed
          /\ log = <<>>
    /\ report.status = "error" =>
          \/ Ext(file.filename) \notin SupportedTypes
          \/ file.holds # "text"
          \/ Len(results) < Len(log)

\* A text file that holds white space only was answered with an error.
C4_Witness ==
    /\ file = [filename |-> "notes.txt", holds |-> "blank"]
    /\ pc = "done" /\ report.status = "error" /\ log = <<>>

\* C5: extract_and_search_founders returns one record per extracted
\* candidate in extraction order; a failure while one founder is enriched
\* gives the degraded record for that founder only and the founders after
\* it are still processed and appended.
C5_OneRecordPerCandidateInOrder ==
    fpc.at # "parked" =>
        /\ Len(founders_info) = fpc.i - 1
        /\ \A k \in 1..Len(founders_info) :
              /\ founders_info[k].name = founders_data[k]
              /\ founders_info[k].degraded <=> <<k, "except">> \in calls
        /\ fpc.at = "done" => Len(founders_info) = Len(founders_data)

\* The enrichment of the first of two founders failed and the second was
\* enriched and scored after it.
C5_Witness ==
    /\ fpc.at = "done" /\ Len(founders_data) = 2
    /\ Len(founders_info) = 2
    /\ founders_info[1].degraded /\ ~founders_info[2].degraded
    /\ <<2, "_score_founder">> \in calls

\* C6: when an initiated scan does not report completed before the
\* time-out, the enrichment of the founder raises nothing, still makes the
\* scoring call, and returns the record with gitroll_score and
\* gitroll_user_id null.
C6_TimeoutLeavesScanFieldsNull ==
    \A k \in 1..Len(founders_info) :
        <<k, "timeout">> \in calls =>
            /\ ~founders_info[k].degraded
            /\ <<k, "_score_founder">> \in calls
            /\ founders_info[k].gitroll_score = JNone
            /\ founders_info[k].gitroll_user_id = JNone

\* A founder whose scan timed out has a record.
C6_Witness ==
    /\ fpc.at = "done"
    /\ \E k \in 1..Len(founders_info) :
          /\ <<k, "timeout">> \in calls
          /\ <<k, "initiate_scan">> \in calls
          /\ founders_info[k].gitroll_score = JNone

\* C7: _calculate_market_saturation maps 0 to low, 1..3 to low, 4..8 to
\* medium and 9 or more to high.
C7_SaturationBoundaries ==
    (arg.f = "saturation" /\ res # NoRes) =>
        res = CASE arg.n = 0 -> "low"
                [] arg.n \in 1..3 -> "low"
                [] arg.n \in 4..8 -> "medium"
                [] OTHER -> "high"

\* Nine competitors were classified, as a high saturation.
C7_Witness == arg.f = "saturation" /\ arg.n = 9 /\ res = "high"

\* The bucket the claim C8 gives to d whole days.
BucketOfDays(d) ==
    IF d <= 7 THEN "Muy Alta"
    ELSE IF d <= 30 THEN "Alta"
    ELSE IF d <= 90 THEN "Media"
    ELSE "Baja"

\* C8: _assess_activity never raises; with d the whole number of days
\* between now and the last update, d <= 7 gives Muy Alta, 8..30 Alta,
\* 31..90 Media, 91 or more Baja, and a missing or unparsable timestamp
\* gives Desconocido.
C8_ActivityBuckets ==
    (arg.f = "activity" /\ res # NoRes) =>
        IF arg.updated_at.kind = "time"
        THEN \E d \in -2..(MaxDays + 2) :
                /\ d * TicksPerDay <= Now - arg.updated_at.at
                /\ Now - arg.updated_at.at < (d + 1) * TicksPerDay
                /\ res = BucketOfDays(d)
        ELSE res = "Desconocido"

\* A repository updated seven days and a part of a day ago was classified
\* Muy Alta.
C8_Witness ==
    /\ arg.f = "activity" /\ arg.updated_at.kind = "time"
    /\ Now - arg.updated_at.at = 7 * TicksPerDay + 1
    /\ res = "Muy Alta"

\* The names the claim C9 has dropped: the empty name, a name of one
\* character, a name of 101 characters, a name of five tokens, a name with
\* a line break in it.
Rejected(name) ==
    \/ NameLen(name) \in {0, 1, 101}
    \/ name.words = 5
    \/ name.words >= 2 /\ name.sep = "\n"

\* C9: of the candidates the model returns, the name validation drops
\* every name that is empty, has one character, has 101 characters, has
\* five tokens or holds a line break, and keeps a clean name of two to
\* four tokens; a dropped name is nowhere in the founder list and the
\* other candidates are kept.  (Stated for the answers whose entries the
\* validation reads to the end, those with no entry that makes it raise.)
C9_RejectedNamesDropped ==
    (extracted.done /\ response.kind = "list"
       /\ \A i \in 1..Len(response.founders) : ~FilterRaises(response.founders[i])) =>
        /\ \A k \in 1..Len(extracted.founders) : ~Rejected(extracted.founders[k])
        /\ \A i \in 1..Len(response.founders) :
              LET founder == response.founders[i]
              IN (founder.kind = "dict" /\ founder.name_is = "str"
                    /\ founder.name.words \in 2..4 /\ founder.name.sep = " "
                    /\ NameLen(founder.name) < 100) =>
                     \E k \in 1..Len(extracted.founders) :
                         extracted.founders[k] = StripName(founder.name)

\* C10: in every result of generate_followup_questions, the one returned
\* when the model call fails included, priority_questions is the first
\* min(3, n) elements of followup_questions in their order, n being the
\* length of followup_questions.
C10_PriorityIsPrefix ==
    out.op = "followup" =>
        LET questions == Get(out.val, "followup_questions", JNone).items
            priority == Get(out.val, "priority_questions", JNone).items
        IN priority = SubSeq(questions, 1, Min(3, Len(questions)))

\* C11: in every result of generate_followup_questions the question list has
\* at most 10 elements, whichever rung produced it and however many
\* questions the response holds, and total_questions is its length.
C11_AtMostTenAndCounted ==
    out.op = "followup" =>
        LET questions == Get(out.val, "followup_questions", JNone).items
        IN /\ Len(questions) <= 10
           /\ Get(out.val, "total_questions", JNone) = JNum(Len(questions))

\* A response with eleven well-formed questions was cut to ten.
C11_Witness ==
    /\ out.op = "followup"
    /\ text \in {ElevenQuestions, ElevenNested, ElevenLines}
    /\ out.rung \in {1, 2, 4}
    /\ Len(Get(out.val, "followup_questions", JNone).items) = 10
    /\ Get(out.val, "total_questions", JNone) = JNum(10)

\* C12: whenever the follow-up stage fails (the model call raises, or the
\* response text holds no question that can be parsed) the stage returns the
\* 5 canned fallback questions, so the question list of a result is never
\* empty and never an error placeholder.
C12_FailureGivesCannedQuestions ==
    out.op = "followup" =>
        LET questions == Get(out.val, "followup_questions", JNone).items
        IN /\ out.rung = 0 => questions = _generate_fallback_questions.items
           /\ questions # <<>>
           /\ \A i \in 1..Len(questions) :
                 Get(questions[i], "category", JNone) # JStr(<<"error">>)

\* C17: analyze_github_repos returns at most 5 records; the records of the
\* URLs of the document come before the records of the founders, and a
\* founder contributes at most 3 repositories, those with the most stars.
C17_AtMostFiveDeckFirstTopThree ==
    repos_analysis.done =>
        LET repos == repos_analysis.repos
        IN /\ Len(repos) <= 5
           /\ \A i, j \in 1..Len(repos) :
                 (repos[i].via # "deck" /\ repos[j].via = "deck") => j < i
           /\ \A u \in Githubs \ {""} :
                 LET mine == {i \in 1..Len(repos) : repos[i].via = u}
                     times == Cardinality({k \in 1..Len(repo_founders) :
                                              repo_founders[k].github = u})
                     stars == UserApi(u).stars
                 IN /\ Cardinality(mine) <= 3 * times
                    /\ \A i \in mine : \A j \in 1..Len(stars) :
                          stars[j] > repos[i].stars =>
                             \E m \in mine : repos[m].name = j

\* Four URLs in the deck and a founder with four repositories: the four
\* records of the deck and the founder's repository with the most stars.
C17_Witness ==
    /\ repos_analysis.done
    /\ Cardinality({m.repo : m \in deck_urls}) = 4
    /\ Len(repo_founders) = 1 /\ repo_founders[1].github = "annlee"
    /\ Len(repos_analysis.repos) = 5
    /\ repos_analysis.repos[5] = [repo |-> "annlee", name |-> 2, stars |-> 3, via |-> "annlee"]

\* C13: two uploads of the same document, with every external service
\* answering the same in both, give the same report apart from the timing
\* fields: the same founders and repositories in the same order.
C13_RepeatedRunsSameReport ==
    \A i, j \in 1..Len(reports) : reports[i] = reports[j]

\* C14: whenever the deck extraction stage fails (the model call raises, or
\* the response cannot be parsed into a project record) the profile
\* analyze_project_content returns is named exactly "Analysis Failed" and
\* its description holds the error message; it never raises.
C14_FailureIsAnalysisFailed ==
    out.op = "content" =>
        /\ ~out.raised
        /\ out.rung \in {0, 2, 3} =>
              /\ Get(out.val, "project_name", JNone) = JStr(<<"Analysis Failed">>)
              /\ Get(out.val, "description", JNone) = JStr(<<"Error during analysis: ">>)

\* The stages of the phases Scoring and Synthesizing.
Scoring == {"assess_viability", "extract_and_search_founders", "analyze_competitors"}
Synthesizing ==
    {"analyze_compliance_risks", "generate_simple_summary", "generate_followup_questions"}

\* C19: an upload passes through Extracting, Scoring, Synthesizing,
\* Aggregating and Done in that order: the extraction is the first stage
\* called, no Synthesizing stage is called before every Scoring stage has
\* returned, and the report is built after the last stage.
C19_PhasesInOrder ==
    /\ log # <<>> => log[1] = "analyze_project_content"
    /\ \A i \in 1..Len(log) :
          log[i] \in Synthesizing =>
             \A stage \in Scoring : \E j \in 1..(i - 1) : log[j] = stage
    /\ report = SuccessReport => Len(log) = Len(StageOrder)

\* The result of stage k of the handler is the failure default of its
\* stage function.
StageFailed(k, value) ==
    CASE k = 1 -> value = AnalysisFailed
      [] k = 2 -> value = ViabilityDefault
      [] k = 3 -> value = FoundersFailure
      [] k = 4 -> value = ReposFailure
      [] k = 5 -> value = SummaryFailure
      [] k = 6 -> \/ value = CompetitorFailure
                  \/ Get(value, "competitive_analysis", JNone) = LandscapeFailure
      [] k = 7 -> value = ComplianceFailure
      [] OTHER -> value = FollowupError

\* C15: failures do not cascade: the handler is never aborted by what a
\* stage returned, and a stage whose own model call and parsing succeed
\* returns a result that is not its failure default, whatever the earlier
\* stages returned (their failure defaults included).
C15_FailuresDoNotCascade ==
    /\ ~pipeline.error
    /\ \A k \in 2..pipeline.at :
          pipeline.calls[k] = "ok" => ~StageFailed(k, pipeline.values[k])

\* The extraction, the viability assessment, the founder search and the
\* competitor analysis all returned their failure defaults, and the
\* repository analysis, the compliance analysis and the follow-up
\* questions, whose own calls succeeded, returned results.
C15_Witness ==
    /\ pipeline.at = 8 /\ ~pipeline.error
    /\ \A k \in {1, 2, 3, 6} : StageFailed(k, pipeline.values[k])
    /\ \A k \in {4, 7, 8} :
          pipeline.calls[k] = "ok" /\ ~StageFailed(k, pipeline.values[k])

\* C16: the founder extraction returns at most 10 candidates when the
\* answer of the model is used and at most 5 when the regex fallback is
\* used, whatever the number of candidates found.
C16_ExtractionCaps ==
    extracted.done =>
        /\ extracted.by = "model" => Len(extracted.founders) <= 10
        /\ extracted.by = "regex" => Len(extracted.founders) <= 5

\* Eleven candidates of the model were cut to ten, or seven names of the
\* deck were cut to five.
C16_Witness ==
    /\ extracted.done
    /\ \/ /\ extracted.by = "model" /\ Len(response.founders) = 11
          /\ Len(extracted.founders) = 10
       \/ /\ extracted.by = "regex" /\ Cardinality(deck_names) = 7
          /\ Len(extracted.founders) = 5

\* The places <<i, j>> of a text that is prose, one well-formed JSON object
\* from i to j, and prose again.
ObjectInProse(t) ==
    {p \in (2..(Len(t) - 1)) \X (2..(Len(t) - 1)) :
        /\ p[1] <= p[2]
        /\ \A k \in (1..(p[1] - 1)) \cup ((p[2] + 1)..Len(t)) : t[k] \in ProseToks
        /\ loads(SubSeq(t, p[1], p[2])).ok
        /\ loads(SubSeq(t, p[1], p[2])).val.t = "obj"}

\* C18: for a response that is one well-formed JSON object, nested to any
\* depth, with prose before and after it, the competitor and the compliance
\* parser return, from rung 1 or rung 2, the validated values of that
\* object's own top-level keys.
C18_OuterObjectIsReturned ==
    \A p \in ObjectInProse(text) :
        LET object == loads(SubSeq(text, p[1], p[2])).val
        IN /\ out.op = "competitive" =>
                /\ out.rung \in {1, 2}
                /\ out.val = _validate_competitive_analysis(object).val
           /\ out.op = "compliance" =>
                /\ out.rung \in {1, 2}
                /\ out.val = _validate_compliance_analysis(object).val

\* What holds of a wait at every moment: a returned result is the completed
\* status of the last check or the timeout dict after the time was up, a
\* check that is not completed leaves the wait running, every check was
\* started before the time was up, and a max_wait_time of 0 has no check.
WaitSafe ==
    /\ wait.at = "returned" =>
          \/ /\ wait.result = wait.last /\ wait.result.status = "completed"
             /\ wait.checks >= 1
          \/ /\ wait.result = ScanTimeout /\ ~wait.result.success
             /\ wait.elapsed >= wait.max_wait_time
             /\ wait.last.status # "completed"
    /\ (wait.at = "while" /\ wait.checks >= 1) => wait.last.status # "completed"
    /\ wait.last.status = "completed" => wait.at = "returned"
    /\ wait.checks >= 1 => wait.started < wait.max_wait_time
    /\ wait.max_wait_time = 0 => wait.checks = 0

\* C20: wait_for_scan_completion always returns when each status check
\* returns; it returns the first check result whose status is completed, a
\* processing or failed check does not end the wait, no check is started
\* once the elapsed time has reached max_wait_time and the timeout result
\* is then returned, and with max_wait_time = 0 no check is made.
C20_WaitReturns ==
    /\ [](wait.at # "parked" => WaitSafe)
    /\ <>(wait.at = "returned")

\* A wait whose checks first failed or reported processing and then
\* returned the completed status.
C20_Witness ==
    /\ wait.at = "returned" /\ wait.checks >= 3
    /\ wait.result.status = "completed"

\* C21: every external call is a suspension point: while one upload
\* request is waiting on a call, a second request submitted to the same
\* worker, not itself waiting on a call, can make its next step.
C21_OtherRequestRunsDuringCall ==
    loop # NoLoop =>
        \A r \in Requests, o \in Requests :
            (r # o /\ loop.req[r].in_call /\ Pending(o) /\ ~loop.req[o].in_call)
                => ENABLED BeginCall(o)

\* C22: numeric scores are always numbers: the compliance parser returns a
\* number as compliance_score and founder scoring returns numbers as
\* score, technical_score and business_score, whatever the answer of the
\* model holds under those keys.
C22_ScoresAreNumbers ==
    /\ out.op = "compliance" => Get(out.val, "compliance_score", JNone).t = "num"
    /\ out.op = "score" =>
          \A key \in {"score", "technical_score", "business_score"} :
              Get(out.val, key, JNone).t = "num"

\* C23: in every result of analyze_competitors that is not the failure
\* record, the top-level market_saturation is _calculate_market_saturation
\* of the number of de-duplicated competitors found, whatever the
\* market_saturation of the model's answer; so equal competitors give equal
\* market_saturation.
C23_SaturationFromCount ==
    (market.done /\ market.result # CompetitorFailure) =>
        Get(market.result, "market_saturation", JNone) =
            JStr(<<_calculate_market_saturation(
                       Len(Get(market.result, "competitors", JNone).items))>>)

\* The model answered with the saturation high and the result, with four
\* competitors found, has medium.
C23_Witness ==
    /\ market.done /\ market.result # CompetitorFailure
    /\ Get(Get(market.result, "competitive_analysis", JNone), "market_saturation", JNone)
           = JStr(<<"high">>)
    /\ Len(Get(market.result, "competitors", JNone).items) = 4
    /\ Get(market.result, "market_saturation", JNone) = JStr(<<"medium">>)

\* C29: analyze_competitors reports at most 6 competitors (3 search terms,
\* 2 results each, de-duplicated by name with the first kept), so its
\* top-level market_saturation is low, medium or, in the failure record,
\* unknown, and never high.
C29_AtMostSixNeverHigh ==
    market.done =>
        /\ Len(Get(market.result, "competitors", JNone).items) <= 6
        /\ Get(market.result, "market_saturation", JNone) \in
               {JStr(<<"low">>), JStr(<<"medium">>)} \cup
               (IF market.result = CompetitorFailure THEN {JStr(<<"unknown">>)} ELSE {})

\* A project with a name, three phrases in its description and a target
\* market has seven search terms; six competitors are reported.
C29_Witness ==
    /\ market.done /\ market.result # CompetitorFailure
    /\ Len(_generate_search_terms(market.project_info).val.items) = 7
    /\ Len(Get(market.result, "competitors", JNone).items) = 6

\* C24: in founder extraction, when the model call raises or its answer is
\* no JSON the result is what the regex extractor finds in the document,
\* which is the empty list when the patterns find no name; when the answer
\* is JSON but no array the result is the empty list.
C24_RegexFallback ==
    extracted.done =>
        /\ response.kind \in {"raises", "no_json"} =>
              /\ extracted.by = "regex"
              /\ extracted.founders \in _extract_names_regex(deck_names)
              /\ deck_names = {} => extracted.founders = <<>>
        /\ response.kind = "no_list" =>
              extracted.by = "model" /\ extracted.founders = <<>>

\* The answer was no JSON and the names of the deck were returned.
C24_Witness ==
    /\ extracted.done /\ response.kind = "no_json"
    /\ extracted.by = "regex" /\ Len(extracted.founders) = 2

\* C25: a founder record made by the except branch of the enrichment has
\* score, technical_score and business_score 0; a record whose enrichment
\* ran through and whose scoring call or the parsing of its answer failed
\* has all three 5.0 and keeps the lookup fields gathered for that founder.
C25_DegradedScores ==
    \A k \in 1..Len(founders_info) :
        LET r == founders_info[k]
        IN /\ <<k, "except">> \in calls =>
                r.score = JNum(0) /\ r.technical_score = JNum(0) /\ r.business_score = JNum(0)
           /\ <<k, "scoring failed">> \in calls =>
                /\ r.score = JNum(5) /\ r.technical_score = JNum(5) /\ r.business_score = JNum(5)
                /\ <<k, "person found">> \in calls <=> r.linkedin # ""
                /\ <<k, "login found">> \in calls <=> r.github = Login(r.name)
                /\ <<k, "completed">> \in calls <=> r.gitroll_score = JNum(7)

\* One founder's enrichment raised, and the scoring call of another, whose
\* profile, login and scan score had been found, failed.
C25_Witness ==
    /\ fpc.at = "done"
    /\ \E k, j \in 1..Len(founders_info) :
          /\ <<k, "except">> \in calls /\ founders_info[k].score = JNum(0)
          /\ <<j, "scoring failed">> \in calls /\ founders_info[j].linkedin # ""
          /\ founders_info[j].github # "" /\ founders_info[j].gitroll_score = JNum(7)
          /\ founders_info[j].score = JNum(5)

\* C26: a validated question of a response that names no category has the
\* category _categorize_question finds in its text, whichever rung of
\* _parse_and_categorize_questions produced it.
C26_CategorizedByKeywords ==
    (out.op = "questions" /\ out.rung \in 1..4
        /\ \A i \in 1..Len(text) : text[i] # "G") =>
        \A k \in 1..Len(out.val.items) :
            LET q == out.val.items[k]
            IN Get(q, "category", JNone)
                   = JStr(<<_categorize_question(Get(q, "question", JNone).s)>>)

\* C27: every question record of a result of generate_followup_questions
\* has a category among team, market, technology, business, risk, general
\* and a priority among high, medium, low.
C27_CategoryAndPriorityInRange ==
    out.op = "followup" =>
        LET questions == Get(out.val, "followup_questions", JNone).items
        IN \A k \in 1..Len(questions) :
              /\ Get(questions[k], "category", JNone)
                    \in {JStr(<<c>>) : c \in {"team", "market", "technology",
                                              "business", "risk", "general"}}
              /\ Get(questions[k], "priority", JNone)
                    \in {JStr(<<p>>) : p \in {"high", "medium", "low"}}

\* C28: when no JSON object can be parsed from a compliance response that
\* contains the words high and risk, the result of
\* _parse_compliance_analysis has risk_level high and its compliance_risks
\* is not the placeholder of the fixed default record.
C28_ManualComplianceExtraction ==
    LET has(word) == \E i \in 1..Len(text) : word \in Words(text[i])
    IN (out.op = "compliance" /\ out.rung > 3 /\ has("high") /\ has("risk")) =>
          /\ Get(out.val, "risk_level", JNone) = JStr(<<"high">>)
          /\ out.val # ComplianceFallback

\* C30: a request whose deck_file is the empty string is answered with
\* status 400 and the detail "Deck file is required" and starts no
\* analysis; a request with any other deck_file is answered with status 200
\* and success true.
C30_EmptyDeckIs400 ==
    project.at = "answered" =>
        IF IsEmpty(project.request.deck_file)
        THEN /\ project.answer.status = 400
             /\ project.answer.detail = <<"Deck file is required">>
             /\ ~project.answer.started /\ project.answer.model_calls = 0
        ELSE project.answer.status = 200 /\ project.answer.success

====
